---- MODULE Spec2Model ----
(***************************************************************************)
(* Leave-request validation and approval engine of the Mini Leave          *)
(* Management System: the leave routes (apply, approve, reject, cancel),   *)
(* the balance route, and the LeaveRequest and Employee models.            *)
(*                                                                         *)
(* Dates are calendar days counted from day 0, a Wednesday and the last    *)
(* day of year 0.  Every date the handlers receive is a date-only value    *)
(* ("YYYY-MM-DD", which new Date() reads as midnight UTC) and the server   *)
(* clock runs in UTC, so an instant is compared by its day.  A calendar    *)
(* year is YearLen consecutive days.                                       *)
(* Text values (reason, review comment) are sequences of one-character     *)
(* strings so that trim() and the schema's maxlength are computed.         *)
(***************************************************************************)
EXTENDS Integers, Sequences, FiniteSets, TLC

VARIABLES now, employees, requests, nextId, resp, inflight

vars == <<now, employees, requests, nextId, resp, inflight>>

-----------------------------------------------------------------------------
(* Bounds of the model *)

\* The last day a request body names.
MaxDay == 3

\* Days in a calendar year; year 0 ends on day 0, year 1 is 1..YearLen.
YearLen == 3

\* The last day the clock reaches.
MaxNow == 2

MaxRequests == 2

\* The last day of the ranges calculateWorkingDays is called on by itself.
CalcMaxDay == 13

\* The end of the one long range a request body names: days 1..LongEnd hold
\* five weekdays.
LongEnd == 7

\* The allocation of the employee whose balance runs out.
SmallLeaveBalance == 1

\* The handlers that may be in flight at once.
MaxHandlers == 2

-----------------------------------------------------------------------------
(* Program constants *)

DefaultLeaveBalance == 20

ReasonMaxLen == 500

CommentMaxLen == 200

-----------------------------------------------------------------------------
(* Values *)

Days == 0..MaxDay

NoDate == -1

Null == "null"

None == <<>>

Some(x) == <<x>>

EmpIds == {"e1", "e2"}

ReqIds == 1..MaxRequests

NoRequest == [exists |-> FALSE]

HandlerIds == 1..MaxHandlers

\* A handler slot with no request in it.
NoHandler == [pc |-> "idle"]

LeaveTypes == {"sick", "vacation", "personal", "emergency", "maternity", "paternity"}

\* A string of n copies of the character c.
Repeat(c, n) == [i \in 1..n |-> c]

Max(a, b) == IF a >= b THEN a ELSE b

-----------------------------------------------------------------------------
(* Date helpers: the Date methods the handlers call *)

\* Date.prototype.getDay(): 0 = Sunday ... 6 = Saturday; day 0 is a Wednesday.
getDay(d) == (d + 3) % 7

\* Date.prototype.getFullYear()
getFullYear(d) == (d + (YearLen - 1)) \div YearLen

\* new Date(currentYear, 0, 1)
yearStart(y) == (y - 1) * YearLen + 1

\* new Date(currentYear, 11, 31)
yearEnd(y) == y * YearLen

\* String.prototype.trim() on a sequence of characters
RECURSIVE TrimLeft(_)
TrimLeft(s) == IF s # <<>> /\ Head(s) = " " THEN TrimLeft(Tail(s)) ELSE s

RECURSIVE TrimRight(_)
TrimRight(s) ==
    IF s # <<>> /\ s[Len(s)] = " " THEN TrimRight(SubSeq(s, 1, Len(s) - 1)) ELSE s

trim(s) == TrimRight(TrimLeft(s))

-----------------------------------------------------------------------------
(* LeaveRequest model *)

\* Mutant: the loop stops one day early (currentDate < end).
RECURSIVE WorkingDaysLoopExclusive(_, _, _)
WorkingDaysLoopExclusive(currentDate, end, workingDays) ==
    IF currentDate < end
    THEN WorkingDaysLoopExclusive(currentDate + 1, end,
                                  IF getDay(currentDate) # 0 /\ getDay(currentDate) # 6
                                  THEN workingDays + 1
                                  ELSE workingDays)
    ELSE workingDays

\* calculateWorkingDays: the while loop, one calendar day per iteration.
RECURSIVE WorkingDaysLoop(_, _, _)
WorkingDaysLoop(currentDate, end, workingDays) ==
    IF currentDate <= end
    THEN WorkingDaysLoop(currentDate + 1, end,
                         IF getDay(currentDate) # 0 /\ getDay(currentDate) # 6
                         THEN workingDays + 1
                         ELSE workingDays)
    ELSE workingDays

\* Mutant: every calendar day of the range is charged.
calculateCalendarDays(startDate, endDate) ==
    IF endDate >= startDate THEN endDate - startDate + 1 ELSE 0

calculateWorkingDays(startDate, endDate) == WorkingDaysLoop(startDate, endDate, 0)

\* utils/date.ts calculateWorkingDays: the same loop on the client.
RECURSIVE ClientWorkingDaysLoop(_, _, _)
ClientWorkingDaysLoop(currentDate, end, workingDays) ==
    IF currentDate <= end
    THEN ClientWorkingDaysLoop(currentDate + 1, end,
                               IF getDay(currentDate) # 0 /\ getDay(currentDate) # 6
                               THEN workingDays + 1
                               ELSE workingDays)
    ELSE workingDays

clientCalculateWorkingDays(startDate, endDate) ==
    ClientWorkingDaysLoop(startDate, endDate, 0)

\* The ids of the stored documents.
Stored == {id \in ReqIds : requests[id].exists}

\* Mutant: the query without its third $or branch (the new range encloses
\* the existing one).
OverlapQueryNoEnclosing(r, employeeId, startDate, endDate) ==
    /\ r.employee = employeeId
    /\ r.status \in {"pending", "approved"}
    /\ \/ r.startDate <= startDate /\ r.endDate >= startDate
       \/ r.startDate <= endDate /\ r.endDate >= endDate

\* Mutant: the first $or branch with $gt in place of $gte.
OverlapQueryStrict(r, employeeId, startDate, endDate) ==
    /\ r.employee = employeeId
    /\ r.status \in {"pending", "approved"}
    /\ \/ r.startDate <= startDate /\ r.endDate > startDate
       \/ r.startDate <= endDate /\ r.endDate >= endDate
       \/ r.startDate >= startDate /\ r.endDate <= endDate

\* Mutant: the query without its status filter.
OverlapQueryAnyStatus(r, employeeId, startDate, endDate) ==
    /\ r.employee = employeeId
    /\ \/ r.startDate <= startDate /\ r.endDate >= startDate
       \/ r.startDate <= endDate /\ r.endDate >= endDate
       \/ r.startDate >= startDate /\ r.endDate <= endDate

\* The query document of hasOverlappingLeave, matched against one document.
OverlapQueryMatches(r, employeeId, startDate, endDate) ==
    /\ r.employee = employeeId
    /\ r.status \in {"pending", "approved"}
    /\ \/ r.startDate <= startDate /\ r.endDate >= startDate
       \/ r.startDate <= endDate /\ r.endDate >= endDate
       \/ r.startDate >= startDate /\ r.endDate <= endDate

\* hasOverlappingLeave; excludeRequestId = 0 stands for the default null.
hasOverlappingLeave(employeeId, startDate, endDate, excludeRequestId) ==
    \E id \in Stored :
        /\ OverlapQueryMatches(requests[id], employeeId, startDate, endDate)
        /\ (excludeRequestId # 0 => id # excludeRequestId)

\* The $group stage: the sum of totalDays over the matched documents.
RECURSIVE SumTotalDays(_)
SumTotalDays(ids) ==
    IF ids = {} THEN 0
    ELSE LET id == CHOOSE x \in ids : TRUE
         IN  requests[id].totalDays + SumTotalDays(ids \ {id})

\* Schema validation run by save(): the validators of the LeaveRequest paths.
SchemaValid(r) ==
    /\ r.endDate >= r.startDate
    /\ r.leaveType \in LeaveTypes
    /\ r.reason # <<>>
    /\ Len(r.reason) <= ReasonMaxLen
    /\ (r.reviewComment # None => Len(r.reviewComment[1]) <= CommentMaxLen)

\* pre('save'): totalDays is recomputed for a new document (or changed dates).
PreSave(r, isNew) ==
    IF isNew THEN [r EXCEPT !.totalDays = calculateWorkingDays(r.startDate, r.endDate)]
    ELSE r

-----------------------------------------------------------------------------
(* Responses *)

\* A response: the handler, the document and employee it names, the HTTP
\* status, the message, for the balance route the leaveBalance body, and for
\* the listing routes the ids of the documents returned, in order.
\* args and value hold the arguments and the result of a model function
\* that is called on its own.
Resp(op, id, emp, code, msg) ==
    [op |-> op, id |-> id, emp |-> emp, code |-> code, msg |-> msg,
     total |-> -1, used |-> -1, available |-> -1, args |-> <<>>, value |-> -1,
     list |-> <<>>]

Outcome(r, reqs) == [resp |-> r, requests |-> reqs]

\* No response outstanding: the server is ready for the next request.
Idle == Resp("idle", 0, Null, 0, "")

\* What an error response carries besides its message: the HTTP status (the
\* body is { success: false, message }).
ErrorKind(r) == r.code

-----------------------------------------------------------------------------
(* Middleware *)

\* Mutant: the role check lets every role through.
authorizeAnyRole(caller) == employees[caller].role \in {"hr", "manager", "employee"}

\* authorizeHR: HR or manager.
authorizeHR(caller) == employees[caller].role \in {"hr", "manager"}

-----------------------------------------------------------------------------
(* POST /api/leaves/apply *)

\* The aggregation of apply: the approved documents of the caller whose
\* startDate lies in the current year, and the sum of their totalDays.
applyUsedLeaves(employeeId) ==
    LET currentYear == getFullYear(now)
        matched == {id \in Stored :
                      /\ requests[id].employee = employeeId
                      /\ requests[id].status = "approved"
                      /\ requests[id].startDate >= yearStart(currentYear)
                      /\ requests[id].startDate <= yearEnd(currentYear)}
    IN  SumTotalDays(matched)

\* Mutant: a new request is stored as approved.
NewLeaveRequestApproved(caller, start, end, leaveType, reason, totalDays) ==
    [exists |-> TRUE, employee |-> caller, startDate |-> start, endDate |-> end,
     leaveType |-> leaveType, reason |-> reason, status |-> "approved",
     reviewedBy |-> Null, reviewedAt |-> NoDate, reviewComment |-> None,
     totalDays |-> totalDays]

\* new LeaveRequest({...}); status defaults to pending, reviewer fields unset.
NewLeaveRequest(caller, start, end, leaveType, reason, totalDays) ==
    [exists |-> TRUE, employee |-> caller, startDate |-> start, endDate |-> end,
     leaveType |-> leaveType, reason |-> reason, status |-> "pending",
     reviewedBy |-> Null, reviewedAt |-> NoDate, reviewComment |-> None,
     totalDays |-> totalDays]

\* Mutant: today itself counts as past.
IsPastOrToday(start, today) == start <= today

\* start < today, today being the beginning of the current day.
IsPastDate(start, today) == start < today

\* Mutant: the overlap query runs before the balance test.
ApplyOutcomeOverlapFirst(caller, startDate, endDate, leaveType, reason) ==
    LET today == now
        workingDays == calculateWorkingDays(startDate, endDate)
        availableLeaves == employees[caller].leaveBalance - applyUsedLeaves(caller)
        leaveRequest == NewLeaveRequest(caller, startDate, endDate, leaveType,
                                        trim(reason), workingDays)
        fail(msg) == Outcome(Resp("apply", 0, Null, 400, msg), requests)
    IN  IF startDate = NoDate \/ endDate = NoDate \/ leaveType = "" \/ reason = <<>>
        THEN fail("Please provide all required fields")
        ELSE IF IsPastDate(startDate, today)
        THEN fail("Cannot apply for leave on past dates")
        ELSE IF endDate < startDate
        THEN fail("End date must be after or equal to start date")
        ELSE IF startDate < employees[caller].joiningDate
        THEN fail("Cannot apply for leave before joining date")
        ELSE IF workingDays <= 0
        THEN fail("Leave request must include at least one working day")
        ELSE IF hasOverlappingLeave(caller, startDate, endDate, 0)
        THEN fail("You already have a pending or approved leave request that overlaps with these dates")
        ELSE IF workingDays > availableLeaves
        THEN fail("Insufficient leave balance")
        ELSE IF ~SchemaValid(leaveRequest)
        THEN fail("Validation failed")
        ELSE Outcome(Resp("apply", nextId, caller, 201,
                          "Leave application submitted successfully"),
                     [requests EXCEPT ![nextId] = PreSave(leaveRequest, TRUE)])

\* POST /apply from the request to its response.
ApplyOutcome(caller, startDate, endDate, leaveType, reason) ==
    LET today == now
        workingDays == calculateWorkingDays(startDate, endDate)
        availableLeaves == employees[caller].leaveBalance - applyUsedLeaves(caller)
        leaveRequest == NewLeaveRequest(caller, startDate, endDate, leaveType,
                                        trim(reason), workingDays)
        fail(msg) == Outcome(Resp("apply", 0, Null, 400, msg), requests)
    IN  IF startDate = NoDate \/ endDate = NoDate \/ leaveType = "" \/ reason = <<>>
        THEN fail("Please provide all required fields")
        ELSE IF IsPastDate(startDate, today)
        THEN fail("Cannot apply for leave on past dates")
        ELSE IF endDate < startDate
        THEN fail("End date must be after or equal to start date")
        ELSE IF startDate < employees[caller].joiningDate
        THEN fail("Cannot apply for leave before joining date")
        ELSE IF workingDays <= 0
        THEN fail("Leave request must include at least one working day")
        ELSE IF workingDays > availableLeaves
        THEN fail("Insufficient leave balance")
        ELSE IF hasOverlappingLeave(caller, startDate, endDate, 0)
        THEN fail("You already have a pending or approved leave request that overlaps with these dates")
        ELSE IF ~SchemaValid(leaveRequest)
        THEN fail("Validation failed")
        ELSE Outcome(Resp("apply", nextId, caller, 201,
                          "Leave application submitted successfully"),
                     [requests EXCEPT ![nextId] = PreSave(leaveRequest, TRUE)])

-----------------------------------------------------------------------------
(* PUT /api/leaves/:id/approve *)

\* Mutant: the approval-time aggregation counts pending documents too.
approvedLeavesWithPending(employeeId, id) ==
    LET currentYear == getFullYear(now)
        matched == {other \in Stored :
                      /\ requests[other].employee = employeeId
                      /\ requests[other].status \in {"pending", "approved"}
                      /\ requests[other].startDate >= yearStart(currentYear)
                      /\ requests[other].startDate <= yearEnd(currentYear)
                      /\ other # id}
    IN  SumTotalDays(matched)

\* The approval-time aggregation: approved documents of leaveRequest.employee
\* (the owner on the document the handler read) in the current year, the
\* request itself excluded.
approvedLeavesOf(employeeId, id) ==
    LET currentYear == getFullYear(now)
        matched == {other \in Stored :
                      /\ requests[other].employee = employeeId
                      /\ requests[other].status = "approved"
                      /\ requests[other].startDate >= yearStart(currentYear)
                      /\ requests[other].startDate <= yearEnd(currentYear)
                      /\ other # id}
    IN  SumTotalDays(matched)

\* The aggregation when the document read is the one in the store.
approveUsedLeaves(id) == approvedLeavesOf(requests[id].employee, id)

\* Mutant: approve without its status guard.
ApproveNotPendingDropped(leaveRequest) == FALSE

\* leaveRequest.status !== 'pending' in approve
ApproveNotPending(leaveRequest) == leaveRequest.status # "pending"

\* Mutant: the approval leaves reviewedAt unset.
ApproveUpdateNoReviewedAt(leaveRequest, caller, comment) ==
    [leaveRequest EXCEPT
         !.status = "approved",
         !.reviewedBy = caller,
         !.reviewComment =
             IF comment # None /\ comment[1] # <<>>
             THEN Some(trim(comment[1]))
             ELSE @]

\* Mutant: the approval writes the caller into employee as well.
ApproveUpdateTakesOwner(leaveRequest, caller, comment) ==
    [leaveRequest EXCEPT
         !.status = "approved",
         !.employee = caller,
         !.reviewedBy = caller,
         !.reviewedAt = now,
         !.reviewComment =
             IF comment # None /\ comment[1] # <<>>
             THEN Some(trim(comment[1]))
             ELSE @]

\* The assignments of approve to the document it has read.
ApproveUpdate(leaveRequest, caller, comment) ==
    [leaveRequest EXCEPT
         !.status = "approved",
         !.reviewedBy = caller,
         !.reviewedAt = now,
         !.reviewComment =
             IF comment # None /\ comment[1] # <<>>
             THEN Some(trim(comment[1]))
             ELSE @]

ApproveOutcome(caller, id, comment) ==
    LET leaveRequest == requests[id]
        availableLeaves ==
            employees[leaveRequest.employee].leaveBalance - approveUsedLeaves(id)
        updated == ApproveUpdate(leaveRequest, caller, comment)
        fail(code, msg) == Outcome(Resp("approve", 0, Null, code, msg), requests)
    IN  IF ~authorizeHR(caller)
        THEN fail(403, "Access denied. HR or Manager role required.")
        ELSE IF id \notin Stored
        THEN fail(404, "Leave request not found")
        ELSE IF ApproveNotPending(leaveRequest)
        THEN fail(400, "Leave request is already " \o leaveRequest.status)
        ELSE IF leaveRequest.totalDays > availableLeaves
        THEN fail(400, "Cannot approve")
        ELSE IF ~SchemaValid(updated)
        THEN fail(500, "Server error while approving leave request")
        ELSE Outcome(Resp("approve", id, Null, 200, "Leave request approved successfully"),
                     [requests EXCEPT ![id] = PreSave(updated, FALSE)])

-----------------------------------------------------------------------------
(* PUT /api/leaves/:id/reject *)

\* leaveRequest.status !== 'pending' in reject
RejectNotPending(leaveRequest) == leaveRequest.status # "pending"

\* Mutant: the comment is tested before it is trimmed.
RejectCommentMissingUntrimmed(comment) ==
    comment = None \/ comment[1] = <<>> \/ Len(comment[1]) = 0

\* !comment || comment.trim().length === 0
RejectCommentMissing(comment) ==
    comment = None \/ comment[1] = <<>> \/ Len(trim(comment[1])) = 0

\* The assignments of reject to the document it has read.
RejectUpdate(leaveRequest, caller, comment) ==
    [leaveRequest EXCEPT
         !.status = "rejected",
         !.reviewedBy = caller,
         !.reviewedAt = now,
         !.reviewComment = Some(trim(comment[1]))]

RejectOutcome(caller, id, comment) ==
    LET leaveRequest == requests[id]
        updated == RejectUpdate(leaveRequest, caller, comment)
        fail(code, msg) == Outcome(Resp("reject", 0, Null, code, msg), requests)
    IN  IF ~authorizeHR(caller)
        THEN fail(403, "Access denied. HR or Manager role required.")
        ELSE IF RejectCommentMissing(comment)
        THEN fail(400, "Rejection comment is required")
        ELSE IF id \notin Stored
        THEN fail(404, "Leave request not found")
        ELSE IF RejectNotPending(leaveRequest)
        THEN fail(400, "Leave request is already " \o leaveRequest.status)
        ELSE IF ~SchemaValid(updated)
        THEN fail(500, "Server error while rejecting leave request")
        ELSE Outcome(Resp("reject", id, Null, 200, "Leave request rejected successfully"),
                     [requests EXCEPT ![id] = PreSave(updated, FALSE)])

-----------------------------------------------------------------------------
(* DELETE /api/leaves/:id *)

\* Mutant: a manager may cancel as HR may.
CancelDeniedUnlessReviewer(leaveRequest, caller) ==
    leaveRequest.employee # caller /\ employees[caller].role \notin {"hr", "manager"}

\* The caller neither owns the request nor is HR.
CancelDenied(leaveRequest, caller) ==
    leaveRequest.employee # caller /\ employees[caller].role # "hr"

\* Mutant: cancel without its pending-only guard.
CancelOutcomeAnyStatus(caller, id) ==
    LET leaveRequest == requests[id]
        fail(code, msg) == Outcome(Resp("cancel", 0, Null, code, msg), requests)
    IN  IF id \notin Stored
        THEN fail(404, "Leave request not found")
        ELSE IF CancelDenied(leaveRequest, caller)
        THEN fail(403, "Access denied. You can only cancel your own leave requests")
        ELSE Outcome(Resp("cancel", id, Null, 200, "Leave request cancelled successfully"),
                     [requests EXCEPT ![id] = NoRequest])

\* DELETE /:id from the request to its response.
CancelOutcome(caller, id) ==
    LET leaveRequest == requests[id]
        fail(code, msg) == Outcome(Resp("cancel", 0, Null, code, msg), requests)
    IN  IF id \notin Stored
        THEN fail(404, "Leave request not found")
        ELSE IF CancelDenied(leaveRequest, caller)
        THEN fail(403, "Access denied. You can only cancel your own leave requests")
        ELSE IF leaveRequest.status # "pending"
        THEN fail(400, "Cannot cancel " \o leaveRequest.status \o " leave request")
        ELSE Outcome(Resp("cancel", id, Null, 200, "Leave request cancelled successfully"),
                     [requests EXCEPT ![id] = NoRequest])

-----------------------------------------------------------------------------
(* GET /api/employees/:id/balance *)

\* The strings mongoose.Types.ObjectId.isValid accepts; "e0" names no employee.
ValidObjectIds == EmpIds \cup {"e0"}

\* Mutant: pending requests are charged too.
balanceUsedWithPending(employeeId) ==
    LET currentYear == getFullYear(now)
        matched == {id \in Stored :
                      /\ requests[id].employee = employeeId
                      /\ requests[id].status \in {"approved", "pending"}
                      /\ requests[id].startDate >= yearStart(currentYear)
                      /\ requests[id].startDate <= yearEnd(currentYear)}
    IN  SumTotalDays(matched)

\* Mutant: the year ends today, so leave that has not started is not charged.
balanceUsedToDate(employeeId) ==
    LET currentYear == getFullYear(now)
        matched == {id \in Stored :
                      /\ requests[id].employee = employeeId
                      /\ requests[id].status = "approved"
                      /\ requests[id].startDate >= yearStart(currentYear)
                      /\ requests[id].startDate <= now}
    IN  SumTotalDays(matched)

\* The aggregation of the balance route for the current year.
balanceUsedLeaves(employeeId) ==
    LET currentYear == getFullYear(now)
        matched == {id \in Stored :
                      /\ requests[id].employee = employeeId
                      /\ requests[id].status = "approved"
                      /\ requests[id].startDate >= yearStart(currentYear)
                      /\ requests[id].startDate <= yearEnd(currentYear)}
    IN  SumTotalDays(matched)

\* id is an employee id, "me", or a string that is no valid ObjectId.
BalanceOutcome(caller, id) ==
    LET effectiveId == IF id = "me" THEN caller ELSE id
        fail(code, msg) == Outcome(Resp("balance", 0, Null, code, msg), requests)
    IN  IF effectiveId \notin ValidObjectIds
        THEN fail(400, "Invalid employee id")
        ELSE IF employees[caller].role # "hr" /\ caller # effectiveId
        THEN fail(403, "Access denied. You can only view your own leave balance")
        ELSE IF effectiveId \notin EmpIds
        THEN fail(404, "Employee not found")
        ELSE LET employee == employees[effectiveId]
                 used == balanceUsedLeaves(effectiveId)
                 availableLeaves == Max(0, employee.leaveBalance - used)
             IN  Outcome([Resp("balance", 0, effectiveId, 200, "ok") EXCEPT
                              !.total = employee.leaveBalance,
                              !.used = used,
                              !.available = availableLeaves],
                         requests)

-----------------------------------------------------------------------------
(* Listing routes *)

\* sort({ createdAt: -1 }): ids are given in creation order, so the newest
\* document has the largest id.
RECURSIVE SortByCreatedAtDesc(_)
SortByCreatedAtDesc(ids) ==
    IF ids = {} THEN <<>>
    ELSE LET newest == CHOOSE x \in ids : \A y \in ids : y <= x
         IN  <<newest>> \o SortByCreatedAtDesc(ids \ {newest})

\* GET /api/leaves/my-requests
MyRequestsOutcome(caller) ==
    Outcome([Resp("my-requests", 0, caller, 200, "ok") EXCEPT
                 !.list = SortByCreatedAtDesc({id \in Stored : requests[id].employee = caller})],
            requests)

\* Mutant: the history route without its role check.
LeavesAccessOpen(caller, effectiveId) == FALSE

\* The caller is not HR and asks for somebody else's history.
LeavesAccessDenied(caller, effectiveId) ==
    employees[caller].role # "hr" /\ caller # effectiveId

\* GET /api/employees/:id/leaves
LeavesOutcome(caller, id) ==
    LET effectiveId == IF id = "me" THEN caller ELSE id
        fail(code, msg) == Outcome(Resp("leaves", 0, Null, code, msg), requests)
    IN  IF effectiveId \notin ValidObjectIds
        THEN fail(400, "Invalid employee id")
        ELSE IF LeavesAccessDenied(caller, effectiveId)
        THEN fail(403, "Access denied. You can only view your own leave history")
        ELSE Outcome([Resp("leaves", 0, effectiveId, 200, "ok") EXCEPT
                          !.list = SortByCreatedAtDesc(
                                       {r \in Stored : requests[r].employee = effectiveId})],
                     requests)

\* GET /api/leaves/requests: status filter, skip and limit.
RequestsOutcome(caller, status, page, limit) ==
    LET matched == {id \in Stored :
                      status \in {"pending", "approved", "rejected"}
                          => requests[id].status = status}
        all == SortByCreatedAtDesc(matched)
        skip == (page - 1) * limit
        last == IF skip + limit <= Len(all) THEN skip + limit ELSE Len(all)
    IN  IF ~authorizeHR(caller)
        THEN Outcome(Resp("requests", 0, Null, 403,
                          "Access denied. HR or Manager role required."), requests)
        ELSE Outcome([Resp("requests", 0, Null, 200, "ok") EXCEPT
                          !.list = SubSeq(all, skip + 1, last),
                          !.total = Cardinality(matched)],
                     requests)

-----------------------------------------------------------------------------
(* Inputs *)

DateInputs == Days \cup {NoDate}

Flu == <<"f", "l", "u">>

\* The leaveType and reason of a request body: valid, missing, outside the
\* enum, blank, padded, and longer than the schema allows.
PlainForm == [leaveType |-> "sick", reason |-> <<" ">> \o Flu]

BadForms ==
    {[leaveType |-> "", reason |-> Flu],
     [leaveType |-> "holiday", reason |-> Flu],
     [leaveType |-> "sick", reason |-> <<>>],
     [leaveType |-> "sick", reason |-> <<" ">>],
     [leaveType |-> "sick", reason |-> Repeat("x", ReasonMaxLen + 1)]}

Ok == <<"o", "k">>

ApproveComments == {None, Some(<<>>), Some(<<" ">> \o Ok), Some(Repeat("x", CommentMaxLen + 1))}

RejectComments ==
    {None, Some(<<>>), Some(<<" ">>), Some(Ok \o <<" ">>),
     Some(Repeat("x", CommentMaxLen + 1))}

BalanceIds == EmpIds \cup {"me", "e0", "not-an-id"}

\* The query of GET /requests: a status (absent, valid, or not a status), a
\* page and a limit.
StatusFilters == {"", "pending", "approved", "bogus"}

Pages == {1, 2}

Limits == {1, 10}

-----------------------------------------------------------------------------
(* State machine: one handler at a time.  A handler runs from the request   *)
(* to its response; resp holds the response until the client has it.       *)

Init ==
    /\ now = 0
    /\ employees =
         [e \in EmpIds |->
            IF e = "e1"
            THEN [role |-> "hr", joiningDate |-> 0, leaveBalance |-> DefaultLeaveBalance]
            ELSE [role |-> "employee", joiningDate |-> 0,
                  leaveBalance |-> SmallLeaveBalance]]
    /\ requests = [id \in ReqIds |-> NoRequest]
    /\ nextId = 1
    /\ resp = Idle
    /\ inflight = [h \in HandlerIds |-> NoHandler]

Apply(caller, startDate, endDate, form) ==
    LET o == ApplyOutcome(caller, startDate, endDate, form.leaveType, form.reason)
    IN  /\ resp = Idle
        /\ o.resp.code = 201 => nextId <= MaxRequests
        /\ requests' = o.requests
        /\ nextId' = IF o.resp.code = 201 THEN nextId + 1 ELSE nextId
        /\ resp' = o.resp
        /\ UNCHANGED <<now, employees, inflight>>

Approve(caller, id, comment) ==
    LET o == ApproveOutcome(caller, id, comment)
    IN  /\ resp = Idle
        /\ requests' = o.requests
        /\ resp' = o.resp
        /\ UNCHANGED <<now, employees, nextId, inflight>>

Reject(caller, id, comment) ==
    LET o == RejectOutcome(caller, id, comment)
    IN  /\ resp = Idle
        /\ requests' = o.requests
        /\ resp' = o.resp
        /\ UNCHANGED <<now, employees, nextId, inflight>>

Cancel(caller, id) ==
    LET o == CancelOutcome(caller, id)
    IN  /\ resp = Idle
        /\ requests' = o.requests
        /\ resp' = o.resp
        /\ UNCHANGED <<now, employees, nextId, inflight>>

GetBalance(caller, id) ==
    LET o == BalanceOutcome(caller, id)
    IN  /\ resp = Idle
        /\ requests' = o.requests
        /\ resp' = o.resp
        /\ UNCHANGED <<now, employees, nextId, inflight>>

\* Every request body: the plain form with every pair of dates and with the
\* long range, and each other form with a range that passes the date guards.
ApplyInputs ==
    {[startDate |-> s, endDate |-> e, form |-> PlainForm] :
        s \in DateInputs, e \in DateInputs}
    \cup {[startDate |-> MaxDay, endDate |-> MaxDay, form |-> f] : f \in BadForms}
    \cup {[startDate |-> 1, endDate |-> LongEnd, form |-> PlainForm]}

\* The response reaches the client.
Respond ==
    /\ resp # Idle
    /\ resp' = Idle
    /\ UNCHANGED <<now, employees, requests, nextId, inflight>>

\* The clock moves to the next day.
Tick ==
    /\ resp = Idle
    /\ now < MaxNow
    /\ now' = now + 1
    /\ UNCHANGED <<employees, requests, nextId, resp, inflight>>

Next ==
    \/ \E caller \in EmpIds, in \in ApplyInputs :
          Apply(caller, in.startDate, in.endDate, in.form)
    \/ \E caller \in EmpIds, id \in ReqIds, comment \in ApproveComments :
          Approve(caller, id, comment)
    \/ \E caller \in EmpIds, id \in ReqIds, comment \in RejectComments :
          Reject(caller, id, comment)
    \/ \E caller \in EmpIds, id \in ReqIds : Cancel(caller, id)
    \/ \E caller \in EmpIds, id \in BalanceIds : GetBalance(caller, id)
    \/ Respond
    \/ Tick

Spec == Init /\ [][Next]_vars

-----------------------------------------------------------------------------
(* hasOverlappingLeave on its own: every store of well-formed documents,    *)
(* every employee, range and excluded id.                                  *)

\* The documents a store may hold: endDate >= startDate (the schema's
\* validator) and at least one working day, in any status.
StoredDocs ==
    {[NewLeaveRequest(e, s, en, "sick", Flu, calculateWorkingDays(s, en)) EXCEPT
         !.status = st,
         !.reviewedBy = IF st = "pending" THEN Null ELSE "e1",
         !.reviewedAt = IF st = "pending" THEN NoDate ELSE 0,
         !.reviewComment = IF st = "rejected" THEN Some(Ok) ELSE None] :
       e \in EmpIds, s \in Days, en \in Days, st \in {"pending", "approved", "rejected"}}

InitOverlap ==
    /\ now = 0
    /\ employees =
         [e \in EmpIds |->
            IF e = "e1"
            THEN [role |-> "hr", joiningDate |-> 0, leaveBalance |-> DefaultLeaveBalance]
            ELSE [role |-> "employee", joiningDate |-> 0,
                  leaveBalance |-> SmallLeaveBalance]]
    /\ requests \in [ReqIds -> {NoRequest} \cup
                       {d \in StoredDocs : d.startDate <= d.endDate /\ d.totalDays >= 1}]
    /\ nextId = MaxRequests + 1
    /\ resp = Idle
    /\ inflight = [h \in HandlerIds |-> NoHandler]

\* One call of LeaveRequest.hasOverlappingLeave; the result is 1 for true.
OverlapCall(employeeId, startDate, endDate, excludeRequestId) ==
    /\ resp = Idle
    /\ resp' = [Resp("hasOverlappingLeave", 0, Null, 0, "") EXCEPT
                  !.args = <<employeeId, startDate, endDate, excludeRequestId>>,
                  !.value = IF hasOverlappingLeave(employeeId, startDate, endDate,
                                                   excludeRequestId)
                            THEN 1 ELSE 0]
    /\ UNCHANGED <<now, employees, requests, nextId, inflight>>

NextOverlap ==
    \/ \E e \in EmpIds, s \in Days, x \in {0} \cup ReqIds :
          \E en \in s..MaxDay : OverlapCall(e, s, en, x)
    \/ Respond

SpecOverlap == InitOverlap /\ [][NextOverlap]_vars

-----------------------------------------------------------------------------
(* calculateWorkingDays on its own, on the server and on the client *)

InitCalc ==
    /\ now = 0
    /\ employees = [e \in EmpIds |->
                      [role |-> "employee", joiningDate |-> 0,
                       leaveBalance |-> DefaultLeaveBalance]]
    /\ requests = [id \in ReqIds |-> NoRequest]
    /\ nextId = 1
    /\ resp = Idle
    /\ inflight = [h \in HandlerIds |-> NoHandler]

CalcServer(startDate, endDate) ==
    /\ resp = Idle
    /\ resp' = [Resp("calculateWorkingDays", 0, Null, 0, "") EXCEPT
                  !.args = <<startDate, endDate>>,
                  !.value = calculateWorkingDays(startDate, endDate)]
    /\ UNCHANGED <<now, employees, requests, nextId, inflight>>

CalcClient(startDate, endDate) ==
    /\ resp = Idle
    /\ resp' = [Resp("clientCalculateWorkingDays", 0, Null, 0, "") EXCEPT
                  !.args = <<startDate, endDate>>,
                  !.value = clientCalculateWorkingDays(startDate, endDate)]
    /\ UNCHANGED <<now, employees, requests, nextId, inflight>>

NextCalc ==
    \/ \E s \in 0..CalcMaxDay, e \in 0..CalcMaxDay : CalcServer(s, e)
    \/ \E s \in 0..CalcMaxDay, e \in 0..CalcMaxDay : CalcClient(s, e)
    \/ Respond

SpecCalc == InitCalc /\ [][NextCalc]_vars

-----------------------------------------------------------------------------
(* The routes under every role: the first employee is HR, the second a      *)
(* manager or an employee, and the listing routes are called between the    *)
(* other handlers.                                                          *)

InitRoles ==
    /\ now = 0
    /\ employees \in
         {[e \in EmpIds |->
             IF e = "e1"
             THEN [role |-> "hr", joiningDate |-> 0, leaveBalance |-> DefaultLeaveBalance]
             ELSE [role |-> r, joiningDate |-> 0, leaveBalance |-> SmallLeaveBalance]] :
          r \in {"manager", "employee"}}
    /\ requests = [id \in ReqIds |-> NoRequest]
    /\ nextId = 1
    /\ resp = Idle
    /\ inflight = [h \in HandlerIds |-> NoHandler]

GetMyRequests(caller) ==
    LET o == MyRequestsOutcome(caller)
    IN  /\ resp = Idle
        /\ requests' = o.requests
        /\ resp' = o.resp
        /\ UNCHANGED <<now, employees, nextId, inflight>>

GetLeaves(caller, id) ==
    LET o == LeavesOutcome(caller, id)
    IN  /\ resp = Idle
        /\ requests' = o.requests
        /\ resp' = o.resp
        /\ UNCHANGED <<now, employees, nextId, inflight>>

GetRequests(caller, status, page, limit) ==
    LET o == RequestsOutcome(caller, status, page, limit)
    IN  /\ resp = Idle
        /\ requests' = o.requests
        /\ resp' = o.resp
        /\ UNCHANGED <<now, employees, nextId, inflight>>

\* The request bodies of apply under the roles: the plain form with every
\* range of days.
RoleApplyInputs ==
    {[startDate |-> s, endDate |-> e, form |-> PlainForm] : s \in Days, e \in Days}

NextRoles ==
    \/ \E caller \in EmpIds, in \in RoleApplyInputs :
          Apply(caller, in.startDate, in.endDate, in.form)
    \/ \E caller \in EmpIds, id \in ReqIds, comment \in ApproveComments :
          Approve(caller, id, comment)
    \/ \E caller \in EmpIds, id \in ReqIds, comment \in RejectComments :
          Reject(caller, id, comment)
    \/ \E caller \in EmpIds, id \in ReqIds : Cancel(caller, id)
    \/ \E caller \in EmpIds, id \in BalanceIds : GetBalance(caller, id)
    \/ \E caller \in EmpIds : GetMyRequests(caller)
    \/ \E caller \in EmpIds, id \in BalanceIds : GetLeaves(caller, id)
    \/ \E caller \in EmpIds, status \in StatusFilters, page \in Pages, limit \in Limits :
          GetRequests(caller, status, page, limit)
    \/ Respond

SpecRoles == InitRoles /\ [][NextRoles]_vars

-----------------------------------------------------------------------------
(* Registration: POST /api/auth/register and POST /api/employees.  The      *)
(* Employee collection starts empty and grows; an Employee record here also *)
(* carries its email.  Text is a sequence of one-character strings.         *)

\* The Employee documents the collection may come to hold.
MaxEmployees == 3

NameMinLen == 2

PasswordMinLen == 6

Departments == {"HR", "Engineering", "Sales", "Marketing", "Finance", "Operations"}

Roles == {"employee", "hr", "manager"}

\* String.prototype.toLowerCase on the letters the inputs use.
toLowerCase(s) ==
    [i \in 1..Len(s) |-> IF s[i] = "A" THEN "a" ELSE IF s[i] = "B" THEN "b" ELSE s[i]]

WordChars == {"a", "b", "c", "A", "B", "x", "i", "o"}

\* The email pattern of the schema on addresses of the form word@word.word:
\* a last label of 2 or 3 word characters after a non-empty domain label.
EmailMatches(s) ==
    \E i \in 1..Len(s), j \in 1..Len(s) :
        /\ 1 < i /\ i + 1 < j
        /\ s[i] = "@" /\ s[j] = "."
        /\ Len(s) - j \in {2, 3}
        /\ \A k \in 1..Len(s) : k \notin {i, j} => s[k] \in WordChars

\* The ids of the stored Employee documents.
Registered == DOMAIN employees

\* _id of the k-th document created.
EmployeeId(k) == "e" \o ToString(k)

\* The ids the collection may come to hold.
EmployeeIds == {EmployeeId(k) : k \in 1..MaxEmployees}

\* Employee.findOne({ email })
EmailTaken(email) == \E e \in Registered : employees[e].email = email

\* Mutant: the bootstrap check looks for a manager.
managerExists == \E e \in Registered : employees[e].role = "manager"

\* Employee.exists({ role: "hr" })
hrExists == \E e \in Registered : employees[e].role = "hr"

\* Schema validation of a new Employee; the email has been lowercased by the
\* schema setter, the name trimmed.
EmployeeValid(body, role) ==
    /\ Len(trim(body.name)) >= NameMinLen
    /\ EmailMatches(toLowerCase(body.email))
    /\ Len(body.password) >= PasswordMinLen
    /\ body.department \in Departments
    /\ body.joiningDate <= now
    /\ role \in Roles

\* new Employee({...}); leaveBalance takes its default.
NewEmployee(body, email, role) ==
    [role |-> role, joiningDate |-> body.joiningDate,
     leaveBalance |-> DefaultLeaveBalance, email |-> email]

\* The body has every required field.
BodyComplete(body) ==
    /\ body.name # <<>> /\ body.email # <<>> /\ body.password # <<>>
    /\ body.department # "" /\ body.joiningDate # NoDate

\* save() of a new Employee: validation, then the unique index on email.
SaveEmployee(op, caller, body, email, role, created) ==
    LET id == EmployeeId(Cardinality(Registered) + 1)
    IN  IF ~EmployeeValid(body, role)
        THEN [resp |-> Resp(op, 0, Null, 400, "Validation failed"),
              employees |-> employees]
        ELSE IF EmailTaken(email)
        THEN [resp |-> Resp(op, 0, Null, 500, "Server error"),
              employees |-> employees]
        ELSE [resp |-> [Resp(op, 0, id, 201, created) EXCEPT !.args = <<caller>>],
              employees |-> [e \in Registered \cup {id} |->
                               IF e = id THEN NewEmployee(body, email, role)
                               ELSE employees[e]]]

\* POST /api/auth/register
RegisterOutcome(body) ==
    LET email == trim(toLowerCase(body.email))
        fail(msg) == [resp |-> Resp("register", 0, Null, 400, msg),
                      employees |-> employees]
    IN  IF ~BodyComplete(body)
        THEN fail("Please provide all required fields")
        ELSE IF EmailTaken(email)
        THEN fail("An account with this email already exists")
        ELSE SaveEmployee("register", Null, body, email,
                          IF hrExists THEN "employee" ELSE "hr",
                          "Registration successful")

\* authorizeAdmin: HR only.
authorizeAdmin(caller) == employees[caller].role = "hr"

\* POST /api/employees; role "" stands for a body without role.  The email
\* of the findOne filter is lowercased by the schema, not trimmed.
AddEmployeeOutcome(caller, body, role) ==
    LET fail(code, msg) == [resp |-> Resp("add-employee", 0, Null, code, msg),
                            employees |-> employees]
    IN  IF ~authorizeAdmin(caller)
        THEN fail(403, "Access denied. HR role required.")
        ELSE IF ~BodyComplete(body)
        THEN fail(400, "Please provide all required fields")
        ELSE IF EmailTaken(toLowerCase(body.email))
        THEN fail(400, "Employee with this email already exists")
        ELSE IF body.joiningDate > now
        THEN fail(400, "Joining date cannot be in the future")
        ELSE SaveEmployee("add-employee", caller, body, trim(toLowerCase(body.email)),
                          IF role # "" THEN role ELSE "employee",
                          "Employee added successfully")

Al == <<"A", "l">>

Secret == Repeat("x", PasswordMinLen)

\* A complete, valid body with the given email.
GoodBody(email) ==
    [name |-> Al, email |-> email, password |-> Secret,
     department |-> "Sales", joiningDate |-> 0]

EmailInputs ==
    {<<"a", "@", "x", ".", "i", "o">>,
     <<"A", "@", "x", ".", "i", "o">>,
     <<"b", "@", "x", ".", "i", "o">>,
     <<"B", "@", "x", ".", "i", "o", " ">>,
     <<"c", "@", "x", ".", "i", "o">>}

\* The bodies of register and add-employee: valid ones, and one each with a
\* missing field, a short name, an address without a domain, a short
\* password, an unknown department and a joining date in the future.
EmployeeBodies ==
    {GoodBody(m) : m \in EmailInputs}
    \cup {[GoodBody(<<"b", "@", "x", ".", "i", "o">>) EXCEPT !.name = <<>>],
          [GoodBody(<<"b", "@", "x", ".", "i", "o">>) EXCEPT !.name = <<"A", " ">>],
          [GoodBody(<<"b", "@", "x">>) EXCEPT !.department = "HR"],
          [GoodBody(<<"b", "@", "x", ".", "i", "o">>) EXCEPT
               !.password = Repeat("x", PasswordMinLen - 1)],
          [GoodBody(<<"b", "@", "x", ".", "i", "o">>) EXCEPT !.department = "Legal"],
          [GoodBody(<<"b", "@", "x", ".", "i", "o">>) EXCEPT !.joiningDate = 1],
          [GoodBody(<<"b", "@", "x", ".", "i", "o">>) EXCEPT !.joiningDate = NoDate]}

RoleInputs == Roles \cup {"", "boss"}

InitRegister ==
    /\ now = 0
    /\ employees = [e \in {} |-> Null]
    /\ requests = [id \in ReqIds |-> NoRequest]
    /\ nextId = 1
    /\ resp = Idle
    /\ inflight = [h \in HandlerIds |-> NoHandler]

Register(body) ==
    LET o == RegisterOutcome(body)
    IN  /\ resp = Idle
        /\ o.resp.code = 201 => Cardinality(Registered) < MaxEmployees
        /\ employees' = o.employees
        /\ resp' = o.resp
        /\ UNCHANGED <<now, requests, nextId, inflight>>

AddEmployee(caller, body, role) ==
    LET o == AddEmployeeOutcome(caller, body, role)
    IN  /\ resp = Idle
        /\ caller \in Registered
        /\ o.resp.code = 201 => Cardinality(Registered) < MaxEmployees
        /\ employees' = o.employees
        /\ resp' = o.resp
        /\ UNCHANGED <<now, requests, nextId, inflight>>

NextRegister ==
    \/ \E body \in EmployeeBodies : Register(body)
    \/ \E caller \in EmployeeIds, body \in EmployeeBodies, role \in RoleInputs :
          AddEmployee(caller, body, role)
    \/ Respond

SpecRegister == InitRegister /\ [][NextRegister]_vars

-----------------------------------------------------------------------------
(* approve and reject as the event loop runs them: a handler gives up the   *)
(* thread at each await (findById, aggregate, save), so the steps of        *)
(* handlers in flight interleave.  inflight[h] holds what handler h has     *)
(* read so far and where it stands.                                         *)

\* The handler has answered.
Done(h, r) == [inflight EXCEPT ![h] = [pc |-> "done", resp |-> r]]

\* approve up to its second await: authorizeHR, findById and the status test
\* on the document read.
ApproveRead(h, caller, id, comment) ==
    LET leaveRequest == requests[id]
        fail(code, msg) == Done(h, Resp("approve", 0, Null, code, msg))
    IN  /\ inflight[h].pc = "idle"
        /\ inflight' =
              IF ~authorizeHR(caller)
              THEN fail(403, "Access denied. HR or Manager role required.")
              ELSE IF id \notin Stored
              THEN fail(404, "Leave request not found")
              ELSE IF ApproveNotPending(leaveRequest)
              THEN fail(400, "Leave request is already " \o leaveRequest.status)
              ELSE [inflight EXCEPT ![h] =
                       [pc |-> "aggregate", op |-> "approve", caller |-> caller, id |-> id,
                        comment |-> comment, doc |-> leaveRequest]]
        /\ UNCHANGED <<now, employees, requests, nextId, resp>>

\* approve from the aggregation to the call of save(): the balance test on
\* the store as it is now, the assignments, and the validation of save().
ApproveAggregate(h) ==
    LET st == inflight[h]
        availableLeaves ==
            employees[st.doc.employee].leaveBalance
                - approvedLeavesOf(st.doc.employee, st.id)
        updated == ApproveUpdate(st.doc, st.caller, st.comment)
        fail(code, msg) == Done(h, Resp("approve", 0, Null, code, msg))
    IN  /\ inflight[h].pc = "aggregate"
        /\ inflight' =
              IF st.doc.totalDays > availableLeaves
              THEN fail(400, "Cannot approve")
              ELSE IF ~SchemaValid(updated)
              THEN fail(500, "Server error while approving leave request")
              ELSE [inflight EXCEPT ![h] = [st EXCEPT !.pc = "save", !.doc = updated]]
        /\ UNCHANGED <<now, employees, requests, nextId, resp>>

\* reject up to the call of save(): authorizeHR, the comment test, findById,
\* the status test, the assignments, and the validation of save().
RejectRead(h, caller, id, comment) ==
    LET leaveRequest == requests[id]
        updated == RejectUpdate(leaveRequest, caller, comment)
        fail(code, msg) == Done(h, Resp("reject", 0, Null, code, msg))
    IN  /\ inflight[h].pc = "idle"
        /\ inflight' =
              IF ~authorizeHR(caller)
              THEN fail(403, "Access denied. HR or Manager role required.")
              ELSE IF RejectCommentMissing(comment)
              THEN fail(400, "Rejection comment is required")
              ELSE IF id \notin Stored
              THEN fail(404, "Leave request not found")
              ELSE IF RejectNotPending(leaveRequest)
              THEN fail(400, "Leave request is already " \o leaveRequest.status)
              ELSE IF ~SchemaValid(updated)
              THEN fail(500, "Server error while rejecting leave request")
              ELSE [inflight EXCEPT ![h] =
                       [pc |-> "save", op |-> "reject", caller |-> caller, id |-> id,
                        comment |-> comment, doc |-> updated]]
        /\ UNCHANGED <<now, employees, requests, nextId, resp>>

\* Mutant: the write of an approval is conditioned on the balance as the
\* store holds it at the write.
SaveWriteRechecked(h) ==
    LET st == inflight[h]
        ok == IF st.op = "approve" THEN "Leave request approved successfully"
              ELSE "Leave request rejected successfully"
        gone == IF st.op = "approve" THEN "Server error while approving leave request"
                ELSE "Server error while rejecting leave request"
        availableLeaves ==
            employees[st.doc.employee].leaveBalance
                - approvedLeavesOf(st.doc.employee, st.id)
    IN  /\ inflight[h].pc = "save"
        /\ IF st.id \in Stored /\ st.op = "approve"
              /\ st.doc.totalDays > availableLeaves
           THEN /\ requests' = requests
                /\ inflight' = Done(h, Resp(st.op, 0, Null, 400, "Cannot approve"))
           ELSE IF st.id \in Stored
           THEN /\ requests' =
                     [requests EXCEPT ![st.id] =
                         [@ EXCEPT !.status = st.doc.status,
                                   !.reviewedBy = st.doc.reviewedBy,
                                   !.reviewedAt = st.doc.reviewedAt,
                                   !.reviewComment =
                                       IF st.doc.reviewComment # None
                                       THEN st.doc.reviewComment ELSE @]]
                /\ inflight' = Done(h, Resp(st.op, st.id, Null, 200, ok))
           ELSE /\ requests' = requests
                /\ inflight' = Done(h, Resp(st.op, 0, Null, 500, gone))
        /\ UNCHANGED <<now, employees, nextId, resp>>

\* Mutant: save() of a document that is gone stores it again.
SaveWriteUpsert(h) ==
    LET st == inflight[h]
        ok == IF st.op = "approve" THEN "Leave request approved successfully"
              ELSE "Leave request rejected successfully"
    IN  /\ inflight[h].pc = "save"
        /\ requests' =
              [requests EXCEPT ![st.id] =
                  IF st.id \in Stored
                  THEN [@ EXCEPT !.status = st.doc.status,
                                 !.reviewedBy = st.doc.reviewedBy,
                                 !.reviewedAt = st.doc.reviewedAt,
                                 !.reviewComment =
                                     IF st.doc.reviewComment # None
                                     THEN st.doc.reviewComment ELSE @]
                  ELSE st.doc]
        /\ inflight' = Done(h, Resp(st.op, st.id, Null, 200, ok))
        /\ UNCHANGED <<now, employees, nextId, resp>>

\* save() of a document that was read: the store sets the paths the handler
\* assigned on the document with that _id, whatever its status is by now
\* (reviewComment is among them when the handler assigned it).
\* When no document has that _id the store writes nothing, save() throws and
\* the handler answers 500.
SaveWrite(h) ==
    LET st == inflight[h]
        ok == IF st.op = "approve" THEN "Leave request approved successfully"
              ELSE "Leave request rejected successfully"
        gone == IF st.op = "approve" THEN "Server error while approving leave request"
                ELSE "Server error while rejecting leave request"
    IN  /\ inflight[h].pc = "save"
        /\ IF st.id \in Stored
           THEN /\ requests' =
                     [requests EXCEPT ![st.id] =
                         [@ EXCEPT !.status = st.doc.status,
                                   !.reviewedBy = st.doc.reviewedBy,
                                   !.reviewedAt = st.doc.reviewedAt,
                                   !.reviewComment =
                                       IF st.doc.reviewComment # None
                                       THEN st.doc.reviewComment ELSE @]]
                /\ inflight' = Done(h, Resp(st.op, st.id, Null, 200, ok))
           ELSE /\ requests' = requests
                /\ inflight' = Done(h, Resp(st.op, 0, Null, 500, gone))
        /\ UNCHANGED <<now, employees, nextId, resp>>

\* The response of a handler reaches its client.
Finish(h) ==
    /\ inflight[h].pc = "done"
    /\ inflight' = [inflight EXCEPT ![h] = NoHandler]
    /\ UNCHANGED <<now, employees, requests, nextId, resp>>

\* Two pending requests of the second employee, on days 1 and 2.
InitConc ==
    /\ now = 0
    /\ employees =
         [e \in EmpIds |->
            IF e = "e1"
            THEN [role |-> "hr", joiningDate |-> 0, leaveBalance |-> DefaultLeaveBalance]
            ELSE [role |-> "employee", joiningDate |-> 0,
                  leaveBalance |-> SmallLeaveBalance]]
    /\ requests =
         [id \in ReqIds |->
            IF id <= 2
            THEN NewLeaveRequest("e2", id, id, "sick", Flu, calculateWorkingDays(id, id))
            ELSE NoRequest]
    /\ nextId = MaxRequests + 1
    /\ resp = Idle
    /\ inflight = [h \in HandlerIds |-> NoHandler]

NextConc ==
    \/ \E h \in HandlerIds, caller \in EmpIds, id \in ReqIds, comment \in ApproveComments :
          ApproveRead(h, caller, id, comment)
    \/ \E h \in HandlerIds : ApproveAggregate(h)
    \/ \E h \in HandlerIds, caller \in EmpIds, id \in ReqIds, comment \in RejectComments :
          RejectRead(h, caller, id, comment)
    \/ \E h \in HandlerIds : SaveWrite(h)
    \/ \E h \in HandlerIds : Finish(h)

SpecConc == InitConc /\ [][NextConc]_vars

-----------------------------------------------------------------------------
(* Every leave route as the event loop runs it: apply and cancel give up    *)
(* the thread at their awaits as approve and reject do, so a handler may    *)
(* act on a document another handler has changed or removed since it was    *)
(* read.                                                                    *)

\* The days the request bodies of the interleaved handlers name.
RaceDays == {1, 2}

\* The review comments of the interleaved handlers: absent or given.
RaceApproveComments == {None, Some(<<" ">> \o Ok)}

RaceRejectComments == {None, Some(Ok \o <<" ">>)}

\* apply up to the resumption after its aggregate: the required fields, the
\* date guards, the working days, and the balance test on the approved
\* documents in the store as it is now.
ApplyAggregate(h, caller, startDate, endDate, form) ==
    LET today == now
        workingDays == calculateWorkingDays(startDate, endDate)
        availableLeaves == employees[caller].leaveBalance - applyUsedLeaves(caller)
        fail(msg) == Done(h, Resp("apply", 0, Null, 400, msg))
    IN  /\ inflight[h].pc = "idle"
        /\ inflight' =
              IF startDate = NoDate \/ endDate = NoDate \/ form.leaveType = ""
                 \/ form.reason = <<>>
              THEN fail("Please provide all required fields")
              ELSE IF IsPastDate(startDate, today)
              THEN fail("Cannot apply for leave on past dates")
              ELSE IF endDate < startDate
              THEN fail("End date must be after or equal to start date")
              ELSE IF startDate < employees[caller].joiningDate
              THEN fail("Cannot apply for leave before joining date")
              ELSE IF workingDays <= 0
              THEN fail("Leave request must include at least one working day")
              ELSE IF workingDays > availableLeaves
              THEN fail("Insufficient leave balance")
              ELSE [inflight EXCEPT ![h] =
                       [pc |-> "overlap", op |-> "apply", caller |-> caller, id |-> 0,
                        comment |-> None,
                        doc |-> NewLeaveRequest(caller, startDate, endDate,
                                                form.leaveType, trim(form.reason),
                                                workingDays)]]
        /\ UNCHANGED <<now, employees, requests, nextId, resp>>

\* apply from the overlap query to the call of save(): the query on the
\* store as it is now, the new document, and the validation of save().
ApplyOverlap(h) ==
    LET st == inflight[h]
        fail(msg) == Done(h, Resp("apply", 0, Null, 400, msg))
    IN  /\ inflight[h].pc = "overlap"
        /\ inflight' =
              IF hasOverlappingLeave(st.caller, st.doc.startDate, st.doc.endDate, 0)
              THEN fail("You already have a pending or approved leave request that overlaps with these dates")
              ELSE IF ~SchemaValid(st.doc)
              THEN fail("Validation failed")
              ELSE [inflight EXCEPT ![h] = [st EXCEPT !.pc = "insert"]]
        /\ UNCHANGED <<now, employees, requests, nextId, resp>>

\* save() of the new document: an insert under a fresh _id.
ApplyInsert(h) ==
    LET st == inflight[h]
    IN  /\ inflight[h].pc = "insert"
        /\ nextId <= MaxRequests
        /\ requests' = [requests EXCEPT ![nextId] = PreSave(st.doc, TRUE)]
        /\ nextId' = nextId + 1
        /\ inflight' = Done(h, Resp("apply", nextId, st.caller, 201,
                                    "Leave application submitted successfully"))
        /\ UNCHANGED <<now, employees, resp>>

\* cancel up to its second await: findById, the owner-or-HR test and the
\* status test on the document read.
CancelRead(h, caller, id) ==
    LET leaveRequest == requests[id]
        fail(code, msg) == Done(h, Resp("cancel", 0, Null, code, msg))
    IN  /\ inflight[h].pc = "idle"
        /\ inflight' =
              IF id \notin Stored
              THEN fail(404, "Leave request not found")
              ELSE IF CancelDenied(leaveRequest, caller)
              THEN fail(403, "Access denied. You can only cancel your own leave requests")
              ELSE IF leaveRequest.status # "pending"
              THEN fail(400, "Cannot cancel " \o leaveRequest.status \o " leave request")
              ELSE [inflight EXCEPT ![h] =
                       [pc |-> "delete", op |-> "cancel", caller |-> caller, id |-> id,
                        comment |-> None, doc |-> leaveRequest]]
        /\ UNCHANGED <<now, employees, requests, nextId, resp>>

\* findByIdAndDelete(id): the store removes the document with that _id,
\* whatever its status is by now; the handler answers 200 in either case.
CancelDelete(h) ==
    LET st == inflight[h]
    IN  /\ inflight[h].pc = "delete"
        /\ requests' = [requests EXCEPT ![st.id] = NoRequest]
        /\ inflight' = Done(h, Resp("cancel", st.id, Null, 200,
                                    "Leave request cancelled successfully"))
        /\ UNCHANGED <<now, employees, nextId, resp>>

\* An empty store on the first day of year 1.
InitRace ==
    /\ now = 1
    /\ employees =
         [e \in EmpIds |->
            IF e = "e1"
            THEN [role |-> "hr", joiningDate |-> 0, leaveBalance |-> DefaultLeaveBalance]
            ELSE [role |-> "employee", joiningDate |-> 0,
                  leaveBalance |-> SmallLeaveBalance]]
    /\ requests = [id \in ReqIds |-> NoRequest]
    /\ nextId = 1
    /\ resp = Idle
    /\ inflight = [h \in HandlerIds |-> NoHandler]

NextRace ==
    \/ \E h \in HandlerIds, caller \in EmpIds, s \in RaceDays, e \in RaceDays :
          ApplyAggregate(h, caller, s, e, PlainForm)
    \/ \E h \in HandlerIds : ApplyOverlap(h)
    \/ \E h \in HandlerIds : ApplyInsert(h)
    \/ \E h \in HandlerIds, caller \in EmpIds, id \in ReqIds, comment \in RaceApproveComments :
          ApproveRead(h, caller, id, comment)
    \/ \E h \in HandlerIds : ApproveAggregate(h)
    \/ \E h \in HandlerIds, caller \in EmpIds, id \in ReqIds, comment \in RaceRejectComments :
          RejectRead(h, caller, id, comment)
    \/ \E h \in HandlerIds : SaveWrite(h)
    \/ \E h \in HandlerIds, caller \in EmpIds, id \in ReqIds : CancelRead(h, caller, id)
    \/ \E h \in HandlerIds : CancelDelete(h)
    \/ \E h \in HandlerIds : Finish(h)

SpecRace == InitRace /\ [][NextRace]_vars

-----------------------------------------------------------------------------
(* register as the event loop runs it: the handler gives up the thread at   *)
(* findOne, at exists and at save.                                          *)

\* register up to the resumption after findOne: the required fields and the
\* lookup of the email.
RegisterFind(h, body) ==
    LET email == trim(toLowerCase(body.email))
        fail(msg) == Done(h, Resp("register", 0, Null, 400, msg))
    IN  /\ inflight[h].pc = "idle"
        /\ inflight' =
              IF ~BodyComplete(body)
              THEN fail("Please provide all required fields")
              ELSE IF EmailTaken(email)
              THEN fail("An account with this email already exists")
              ELSE [inflight EXCEPT ![h] =
                       [pc |-> "exists", op |-> "register", body |-> body,
                        email |-> email, role |-> ""]]
        /\ UNCHANGED <<now, employees, requests, nextId, resp>>

\* register from Employee.exists({ role: "hr" }) to the call of save(): the
\* role is fixed from the store as it is now.
RegisterExists(h) ==
    LET st == inflight[h]
    IN  /\ inflight[h].pc = "exists"
        /\ inflight' =
              [inflight EXCEPT ![h] =
                  [st EXCEPT !.pc = "save",
                             !.role = IF hrExists THEN "employee" ELSE "hr"]]
        /\ UNCHANGED <<now, employees, requests, nextId, resp>>

\* save() of the new Employee and the response.
RegisterSave(h) ==
    LET st == inflight[h]
        o == SaveEmployee("register", Null, st.body, st.email, st.role,
                          "Registration successful")
    IN  /\ inflight[h].pc = "save"
        /\ o.resp.code = 201 => Cardinality(Registered) < MaxEmployees
        /\ employees' = o.employees
        /\ inflight' = Done(h, o.resp)
        /\ UNCHANGED <<now, requests, nextId, resp>>

NextRegisterRace ==
    \/ \E h \in HandlerIds, body \in EmployeeBodies : RegisterFind(h, body)
    \/ \E h \in HandlerIds : RegisterExists(h)
    \/ \E h \in HandlerIds : RegisterSave(h)
    \/ \E h \in HandlerIds : Finish(h)

SpecRegisterRace == InitRegister /\ [][NextRegisterRace]_vars

-----------------------------------------------------------------------------
(* Reference definitions used by the properties, written from the calendar  *)
(* and the records, not from the handlers' queries.                        *)

\* The calendar days of a stored request.
DaysOf(r) == r.startDate..r.endDate

\* Monday to Friday.
IsWeekday(d) == getDay(d) \in 1..5

\* The number of weekdays in start..end.
Weekdays(start, end) == Cardinality({d \in start..end : IsWeekday(d)})

\* The approved chargeable days of an employee whose start date falls in
\* calendar year y, counted day by day.
ApprovedDays(employeeId, y) ==
    Cardinality({p \in ReqIds \X (1..(LongEnd + 1)) :
        /\ requests[p[1]].exists
        /\ requests[p[1]].employee = employeeId
        /\ requests[p[1]].status = "approved"
        /\ getFullYear(requests[p[1]].startDate) = y
        /\ p[2] <= requests[p[1]].totalDays})

\* A pending or approved request of the employee shares a day with start..end.
SharesDay(employeeId, start, end) ==
    \E id \in ReqIds :
        /\ requests[id].exists
        /\ requests[id].employee = employeeId
        /\ requests[id].status \in {"pending", "approved"}
        /\ DaysOf(requests[id]) \cap (start..end) # {}

\* A comment with at least one character that is not a space.
NonBlank(comment) ==
    comment # None /\ \E i \in 1..Len(comment[1]) : comment[1][i] # " "

-----------------------------------------------------------------------------
(* C1 *)

C1_Guarded ==
    \A id \in Stored :
        (resp = Idle /\ requests[id].status # "pending") =>
            /\ \A caller \in EmpIds, comment \in ApproveComments :
                 LET o == ApproveOutcome(caller, id, comment)
                 IN  /\ o.resp.code # 200
                     /\ o.requests = requests
                     /\ authorizeHR(caller) =>
                          /\ o.resp.code = 400
                          /\ o.resp.msg = "Leave request is already " \o requests[id].status
            /\ \A caller \in EmpIds, comment \in RejectComments :
                 LET o == RejectOutcome(caller, id, comment)
                 IN  /\ o.resp.code # 200
                     /\ o.requests = requests
                     /\ (authorizeHR(caller) /\ NonBlank(comment)) =>
                          /\ o.resp.code = 400
                          /\ o.resp.msg = "Leave request is already " \o requests[id].status

C1_FailedStep ==
    (resp'.op \in {"approve", "reject"} /\ resp'.code # 200) =>
        /\ requests' = requests
        /\ \A e \in EmpIds : ApprovedDays(e, getFullYear(now))' = ApprovedDays(e, getFullYear(now))

\* C1: whenever the server is ready for a request (resp = Idle),
\* approve or reject of a request that is not pending fails, with the
\* 'already {status}' error for an authorized reviewer (and, for reject, a
\* non-blank comment), and leaves every record unchanged; a second approve of
\* the same request fails and the approved days counted for its owner stay
\* what they were.
C1_AlreadyReviewed == [](C1_Guarded) /\ [][C1_FailedStep]_vars

\* C1 witness: a second approve of an approved request has been refused.
C1_Witness ==
    /\ resp.op = "approve"
    /\ resp.code = 400
    /\ resp.msg = "Leave request is already approved"
    /\ \E id \in Stored : requests[id].status = "approved"

-----------------------------------------------------------------------------
(* C2 *)

\* C2: no two pending or approved requests of one employee share a calendar day.
C2_NoSharedDay ==
    \A a \in Stored, b \in Stored :
        (/\ a # b
         /\ requests[a].employee = requests[b].employee
         /\ requests[a].status \in {"pending", "approved"}
         /\ requests[b].status \in {"pending", "approved"})
        => DaysOf(requests[a]) \cap DaysOf(requests[b]) = {}

\* C2 witness: one employee holds two live requests on adjacent days, the
\* second stored by the apply that has just answered.
C2_Witness ==
    /\ resp.op = "apply"
    /\ resp.code = 201
    /\ \E a \in Stored :
         /\ a # resp.id
         /\ requests[a].employee = requests[resp.id].employee
         /\ requests[a].status = "approved"
         /\ requests[a].endDate + 1 = requests[resp.id].startDate

-----------------------------------------------------------------------------
(* C3 *)

\* The interval test of the specification on one stored document.
Intersects(r, start, end) == ~(r.endDate < start \/ r.startDate > end)

\* C3: hasOverlappingLeave(employee, start, end, exclude) is true exactly
\* when a pending or approved request of that employee other than exclude
\* intersects [start, end], touching endpoints included.
C3_OverlapIsIntersection ==
    resp.op = "hasOverlappingLeave" =>
        LET e == resp.args[1]
            s == resp.args[2]
            en == resp.args[3]
            x == resp.args[4]
        IN  (resp.value = 1) <=>
                \E id \in ReqIds :
                    /\ requests[id].exists
                    /\ id # x
                    /\ requests[id].employee = e
                    /\ requests[id].status \in {"pending", "approved"}
                    /\ Intersects(requests[id], s, en)

\* C3 witness: an approved request [0, 1] and a call for [1, 2], which only
\* touches it, answered true.
C3_Witness ==
    /\ resp.op = "hasOverlappingLeave"
    /\ resp.args = <<"e2", 1, 2, 0>>
    /\ resp.value = 1
    /\ requests[1].exists /\ requests[1].employee = "e2"
    /\ requests[1].status = "approved"
    /\ requests[1].startDate = 0 /\ requests[1].endDate = 1
    /\ ~requests[2].exists

-----------------------------------------------------------------------------
(* C8 *)

\* C8: calculateWorkingDays(start, end), on the server and on the client, is
\* the number of days of start..end that fall on Monday to Friday.
C8_WorkingDaysAreWeekdays ==
    resp.op \in {"calculateWorkingDays", "clientCalculateWorkingDays"} =>
        resp.value = Weekdays(resp.args[1], resp.args[2])

\* C8 witness: a Saturday-to-Sunday range counted as 0 days.
C8_Witness ==
    /\ resp.op = "calculateWorkingDays"
    /\ getDay(resp.args[1]) = 6
    /\ resp.args[2] = resp.args[1] + 1
    /\ resp.value = 0

-----------------------------------------------------------------------------
(* C4 *)

\* C4 as claimed: a request that apply has just stored charges no more than
\* the allocation minus the approved days of the year of its start date.
C4_ApplyWithinStartYearBalance ==
    (resp.op = "apply" /\ resp.code = 201) =>
        LET r == requests[resp.id]
        IN  r.totalDays <= employees[r.employee].leaveBalance
                           - ApprovedDays(r.employee, getFullYear(r.startDate))

-----------------------------------------------------------------------------
(* C5 *)

\* C5 as claimed: whenever the server is ready for a request (resp = Idle),
\* approve of a pending request by a reviewer fails and leaves the request as
\* it is (pending, no reviewer fields) when its totalDays exceed the owner's
\* allocation minus the owner's other approved days of the year of its start
\* date, and otherwise sets its status to approved.
C5_ApproveWithinStartYearBalance ==
    \A id \in Stored :
        (resp = Idle /\ requests[id].status = "pending") =>
            \A caller \in {c \in EmpIds : authorizeHR(c)} :
                LET r == requests[id]
                    o == ApproveOutcome(caller, id, None)
                    exceeds ==
                        r.totalDays > employees[r.employee].leaveBalance
                                      - ApprovedDays(r.employee, getFullYear(r.startDate))
                IN  IF exceeds
                    THEN o.resp.code # 200 /\ o.requests = requests
                    ELSE o.requests[id].status = "approved"

-----------------------------------------------------------------------------
(* C6 *)

\* C6: a balance response carries total = the allocation, used = the approved
\* days of the employee that start in the current year, and
\* available = max(0, total - used).
C6_BalanceIsDerived ==
    (resp.op = "balance" /\ resp.code = 200) =>
        /\ resp.total = employees[resp.emp].leaveBalance
        /\ resp.used = ApprovedDays(resp.emp, getFullYear(now))
        /\ resp.available = (IF resp.total - resp.used > 0
                             THEN resp.total - resp.used ELSE 0)

\* C6 witness: allocation 20 and one approved request of 5 days in the current
\* year, next to a pending and another employee's request, give {20, 5, 15}.
C6_Witness ==
    /\ resp.op = "balance" /\ resp.code = 200
    /\ resp.total = 20 /\ resp.used = 5 /\ resp.available = 15
    /\ \E id \in Stored : requests[id].employee # resp.emp

-----------------------------------------------------------------------------
(* C7 *)

\* The response each employee gets to a request for their own balance.
BalanceResponses == [e \in EmpIds |-> BalanceOutcome(e, "me").resp]

\* The balance route changes no record.
C7_ReadOnly == resp'.op = "balance" => UNCHANGED <<now, employees, requests, nextId>>

\* A step that is more than a response coming or going, and that changes no
\* employee and no request record.
C7_NoMutation ==
    /\ <<now, nextId>>' # <<now, nextId>>
    /\ requests' = requests
    /\ employees' = employees

\* The balance response just returned is what the same request gets again.
C7_RepeatedCall ==
    (resp.op = "balance" /\ resp.code = 200) => BalanceResponses[resp.emp] = resp

\* C7 as claimed: a step that changes no employee and no request record
\* changes no balance response.
C7_SameWithoutMutation ==
    [][C7_NoMutation => BalanceResponses' = BalanceResponses]_vars

\* C7 amended: the balance route changes no record, the same request made
\* again at once gets the same response, and a step that changes no employee
\* record, no request record and not the calendar year changes no balance
\* response.
C7_SameWithinYear ==
    /\ [](C7_RepeatedCall)
    /\ [][C7_ReadOnly]_vars
    /\ [][(C7_NoMutation /\ getFullYear(now') = getFullYear(now))
             => BalanceResponses' = BalanceResponses]_vars

\* C7 witness: a balance with approved days has been returned after the
\* clock moved inside the year.
C7_Witness ==
    /\ resp.op = "balance" /\ resp.code = 200
    /\ resp.used > 0
    /\ now > 1 /\ getFullYear(now) = getFullYear(now - 1)

-----------------------------------------------------------------------------
(* C9 *)

C9_WellFormed ==
    \A id \in Stored :
        /\ requests[id].startDate <= requests[id].endDate
        /\ requests[id].totalDays = Weekdays(requests[id].startDate, requests[id].endDate)
        /\ requests[id].totalDays >= 1

C9_WeekendRefused ==
    \A caller \in EmpIds, s \in Days, e \in Days :
        (resp = Idle /\ s <= e /\ Weekdays(s, e) = 0) =>
            LET o == ApplyOutcome(caller, s, e, PlainForm.leaveType, PlainForm.reason)
            IN  o.resp.code = 400 /\ o.requests = requests

C9_TotalDaysFixed ==
    \A id \in ReqIds :
        (requests[id].exists /\ requests'[id].exists) =>
            requests'[id].totalDays = requests[id].totalDays

\* C9: every stored request has startDate <= endDate and totalDays = the
\* weekdays of its range, at least 1; no step changes the totalDays of a
\* stored request; apply for a range without a weekday is refused.
C9_TotalDays == [](C9_WellFormed /\ C9_WeekendRefused) /\ [][C9_TotalDaysFixed]_vars

\* C9 witness: an apply for a weekend range has been refused while a request
\* spanning a weekend is stored.
C9_Witness ==
    /\ resp.op = "apply"
    /\ resp.msg = "Leave request must include at least one working day"
    /\ \E id \in Stored : requests[id].totalDays < requests[id].endDate - requests[id].startDate + 1

-----------------------------------------------------------------------------
(* C10 *)

\* Every guard of apply other than the past-date guard, stated on the
\* calendar and the records.
OtherGuardsPass(caller, s, e) ==
    /\ s <= e
    /\ s >= employees[caller].joiningDate
    /\ Weekdays(s, e) >= 1
    /\ Weekdays(s, e) <= employees[caller].leaveBalance
                         - ApprovedDays(caller, getFullYear(now))
    /\ ~SharesDay(caller, s, e)

-----------------------------------------------------------------------------
(* C11 *)

\* The error messages of apply the claim names.
ApplyErrors ==
    {"Please provide all required fields",
     "Cannot apply for leave on past dates",
     "End date must be after or equal to start date",
     "Cannot apply for leave before joining date",
     "Leave request must include at least one working day",
     "Insufficient leave balance",
     "You already have a pending or approved leave request that overlaps with these dates"}

C11_ApplyStep ==
    resp'.op = "apply" =>
        /\ employees' = employees
        /\ resp'.msg \in ApplyErrors => resp'.code = 400
        /\ IF resp'.code = 201
           THEN \E id \in ReqIds :
                   /\ ~requests[id].exists
                   /\ requests'[id].exists
                   /\ requests'[id].status = "pending"
                   /\ requests'[id].employee = resp'.emp
                   /\ \A other \in ReqIds \ {id} : requests'[other] = requests[other]
           ELSE requests' = requests

\* C11: an apply that answers an error leaves the stored requests and the
\* employees exactly as they were; an apply that succeeds adds exactly one
\* request, pending and owned by the caller, and changes nothing else.
C11_ApplyAllOrNothing == [][C11_ApplyStep]_vars

\* C11 witness: an apply has been refused for insufficient balance while
\* another request of the caller stays stored.
C11_Witness ==
    /\ resp.op = "apply"
    /\ resp.code = 400
    /\ resp.msg = "Insufficient leave balance"
    /\ \E id \in Stored : requests[id].status = "approved"

-----------------------------------------------------------------------------
(* C12 *)

\* The elements of a sequence.
Range(seq) == {seq[i] : i \in 1..Len(seq)}

\* Every list of requests a caller can get in the current state.
AllLists ==
    {MyRequestsOutcome(c).resp.list : c \in EmpIds}
    \cup {LeavesOutcome(c, id).resp.list : c \in EmpIds, id \in BalanceIds}
    \cup {RequestsOutcome(c, st, pg, lm).resp.list :
             c \in EmpIds, st \in StatusFilters, pg \in Pages, lm \in Limits}

C12_DeletesIffAllowed ==
    \A caller \in {c \in EmpIds : resp = Idle}, id \in ReqIds :
        LET o == CancelOutcome(caller, id)
            allowed ==
                /\ requests[id].exists
                /\ requests[id].status = "pending"
                /\ (requests[id].employee = caller \/ employees[caller].role = "hr")
        IN  IF allowed
            THEN /\ o.resp.code = 200
                 /\ o.requests = [requests EXCEPT ![id] = NoRequest]
            ELSE /\ o.resp.code # 200
                 /\ o.requests = requests

C12_GoneFromLists ==
    (resp.op = "cancel" /\ resp.code = 200) =>
        /\ ~requests[resp.id].exists
        /\ \A l \in AllLists : resp.id \notin Range(l)

\* C12: whenever the server is ready for a request (resp = Idle),
\* withdraw deletes the request, and only it, exactly when the request exists,
\* is pending and the caller owns it or has role hr; in every other case the
\* call fails and no record changes; after a successful withdraw the request
\* is in no list any caller can get.
C12_Withdraw == C12_DeletesIffAllowed /\ C12_GoneFromLists

\* C12 witness: a manager who does not own the request has been refused.
C12_Witness ==
    /\ resp.op = "cancel"
    /\ resp.code = 403
    /\ employees["e2"].role = "manager"
    /\ \E id \in Stored : requests[id].employee = "e1" /\ requests[id].status = "pending"

-----------------------------------------------------------------------------
(* C13 *)

\* The roles that may review.
ReviewerRoles == {"hr", "manager"}

C13_EmployeeRefused ==
    \A caller \in {c \in EmpIds : resp = Idle}, id \in ReqIds :
        /\ \A comment \in ApproveComments :
               LET o == ApproveOutcome(caller, id, comment)
               IN  /\ employees[caller].role = "employee" =>
                        o.resp.code = 403 /\ o.requests = requests
                   /\ o.requests # requests => employees[caller].role \in ReviewerRoles
        /\ \A comment \in RejectComments :
               LET o == RejectOutcome(caller, id, comment)
               IN  /\ employees[caller].role = "employee" =>
                        o.resp.code = 403 /\ o.requests = requests
                   /\ o.requests # requests => employees[caller].role \in ReviewerRoles

C13_ReviewerRecorded ==
    \A id \in Stored :
        requests[id].status \in {"approved", "rejected"} =>
            /\ requests[id].reviewedBy \in EmpIds
            /\ employees[requests[id].reviewedBy].role \in ReviewerRoles

\* C13: whenever the server is ready for a request (resp = Idle),
\* approve and reject by a caller with role employee answer 403 and change
\* no request, a call that changes a request comes from a caller with role hr
\* or manager, and every approved or rejected request records a reviewer with
\* role hr or manager.
C13_ReviewersOnly == C13_EmployeeRefused /\ C13_ReviewerRecorded

\* C13 witness: an employee's approve has been refused while a request
\* decided by a reviewer is stored.
C13_Witness ==
    /\ resp.op = "approve"
    /\ resp.code = 403
    /\ employees["e2"].role = "employee"
    /\ \E id \in Stored :
          requests[id].status \in {"approved", "rejected"} /\ requests[id].reviewedBy = "e1"

\* A manager has approved a request.
C13_ManagerApproved ==
    \E id \in Stored :
        /\ requests[id].status = "approved"
        /\ requests[id].reviewedBy = "e2"
        /\ employees["e2"].role = "manager"

-----------------------------------------------------------------------------
(* C14 *)

\* The employees a step creates.
Created == DOMAIN employees' \ DOMAIN employees

\* No employee had role hr before the step.
NoHrBefore == \A e \in DOMAIN employees : employees[e].role # "hr"

C14_RegistrationStep ==
    /\ \A e \in DOMAIN employees : e \in DOMAIN employees' /\ employees'[e] = employees[e]
    /\ \A e \in Created :
          /\ resp'.op \in {"register", "add-employee"}
          /\ resp'.op = "register" =>
                /\ DOMAIN employees = {} => employees'[e].role = "hr"
                /\ DOMAIN employees # {} => employees'[e].role = "employee"
          /\ employees'[e].role = "hr" =>
                \/ resp'.op = "register" /\ NoHrBefore
                \/ /\ resp'.op = "add-employee"
                   /\ resp'.args[1] \in DOMAIN employees
                   /\ employees[resp'.args[1]].role = "hr"

\* C14: the first employee registered gets role hr and every later
\* self-registration gets role employee; a step that creates an employee with
\* role hr is a self-registration made while no hr record exists or an
\* add-employee called by an employee with role hr; no step changes or
\* removes an existing employee.
C14_HrMinting == [][C14_RegistrationStep]_vars

\* C14 witness: a later self-registration has just received role employee
\* while a second hr, added by the first, is stored.
C14_Witness ==
    /\ resp.op = "register"
    /\ resp.code = 201
    /\ employees[resp.emp].role = "employee"
    /\ employees["e1"].role = "hr"
    /\ \E e \in Registered \ {"e1"} : employees[e].role = "hr"

-----------------------------------------------------------------------------
(* C15 *)

C15_ReviewFields ==
    \A id \in Stored :
        /\ requests[id].status = "pending" =>
              /\ requests[id].reviewedBy = Null
              /\ requests[id].reviewedAt = NoDate
              /\ requests[id].reviewComment = None
        /\ requests[id].status \in {"approved", "rejected"} =>
              /\ requests[id].reviewedBy \in EmpIds
              /\ requests[id].reviewedAt \in 0..now

C15_WrittenByReview ==
    \A id \in ReqIds :
        (/\ requests[id].exists /\ requests'[id].exists
         /\ <<requests[id].reviewedBy, requests[id].reviewedAt, requests[id].reviewComment>>
              # <<requests'[id].reviewedBy, requests'[id].reviewedAt,
                  requests'[id].reviewComment>>)
        => (resp'.op \in {"approve", "reject"} /\ resp'.code = 200 /\ resp'.id = id)

\* C15: a pending request has no reviewer, no reviewedAt and no
\* reviewComment; an approved or rejected request has a reviewer and a
\* reviewedAt; only a successful approve or reject of a request changes these
\* fields of it.
C15_ReviewerFields == [](C15_ReviewFields) /\ [][C15_WrittenByReview]_vars

\* C15 witness: one employee holds an approved request next to a pending
\* one, after an approve that carried a comment.
C15_Witness ==
    /\ resp.op = "approve" /\ resp.code = 200
    /\ requests[resp.id].reviewComment = Some(Ok)
    /\ \E id \in Stored : requests[id].status = "pending"

-----------------------------------------------------------------------------
(* C16 *)

\* Missing, empty, or made of spaces only.
BlankComment(comment) ==
    comment = None \/ \A i \in 1..Len(comment[1]) : comment[1][i] = " "

C16_BlankRefused ==
    \A id \in {r \in Stored : resp = Idle /\ requests[r].status = "pending"} :
        \A caller \in EmpIds, comment \in RejectComments :
            BlankComment(comment) =>
                LET o == RejectOutcome(caller, id, comment)
                IN  /\ o.resp.code \in {400, 403}
                    /\ authorizeHR(caller) =>
                          /\ o.resp.code = 400
                          /\ o.resp.msg = "Rejection comment is required"
                    /\ o.requests = requests

C16_RejectedHasComment ==
    \A id \in Stored :
        requests[id].status = "rejected" =>
            /\ requests[id].reviewComment # None
            /\ Len(requests[id].reviewComment[1]) >= 1
            /\ ~BlankComment(requests[id].reviewComment)

\* C16: whenever the server is ready for a request (resp = Idle), reject
\* of a pending request with a missing, empty or whitespace-only comment fails
\* (400 'Rejection comment is required' for a reviewer) and changes no
\* request; every rejected request carries a non-empty reviewComment.
C16_RejectNeedsComment == C16_BlankRefused /\ C16_RejectedHasComment

\* C16 witness: a reject without a usable comment has been refused while a
\* rejected request with its comment is stored.
C16_Witness ==
    /\ resp.op = "reject" /\ resp.code = 400
    /\ resp.msg = "Rejection comment is required"
    /\ \E id \in Stored : requests[id].status = "rejected" /\ requests[id].reviewComment = Some(Ok)
    /\ \E id \in Stored : requests[id].status = "pending"

-----------------------------------------------------------------------------
(* C17 *)

\* The fields of a request that a review must leave as created.
Created17(r) == <<r.employee, r.startDate, r.endDate, r.leaveType, r.reason, r.totalDays>>

C17_Frame ==
    resp'.op \in {"apply", "approve", "reject", "cancel"} =>
        /\ employees' = employees
        /\ Cardinality({id \in ReqIds : requests'[id] # requests[id]}) <= 1
        /\ resp'.op \in {"approve", "reject"} =>
              \A id \in ReqIds :
                  /\ requests'[id].exists = requests[id].exists
                  /\ requests[id].exists => Created17(requests'[id]) = Created17(requests[id])

\* C17: every apply, approve, reject and withdraw step changes at most one
\* request record and no employee record; approve and reject create and
\* delete nothing and leave owner, startDate, endDate, leaveType, reason and
\* totalDays of every request as they were.
C17_OneRecord == [][C17_Frame]_vars

\* C17 witness: an approve with a comment has changed a request while
\* another request is stored.
C17_Witness ==
    /\ resp.op = "approve" /\ resp.code = 200
    /\ requests[resp.id].status = "approved"
    /\ requests[resp.id].employee # requests[resp.id].reviewedBy
    /\ \E id \in Stored : id # resp.id

-----------------------------------------------------------------------------
(* C18 *)

\* The ids of the requests an employee owns, newest first or in any order.
OwnedBy(e) == {id \in ReqIds : requests[id].exists /\ requests[id].employee = e}

C18_OthersOnlyForReviewers ==
    \A caller \in {c \in EmpIds : resp = Idle}, id \in BalanceIds :
        LET b == BalanceOutcome(caller, id).resp
            l == LeavesOutcome(caller, id).resp
            own == id \in {"me", caller}
        IN  /\ (b.code = 200 /\ b.emp # caller) => employees[caller].role \in {"hr", "manager"}
            /\ (l.code = 200 /\ l.emp # caller) => employees[caller].role \in {"hr", "manager"}
            /\ (employees[caller].role = "employee" /\ ~own) =>
                   b.code # 200 /\ l.code # 200
            /\ own =>
                   /\ b.code = 200 /\ b.emp = caller
                   /\ l.code = 200 /\ l.emp = caller
            /\ l.code = 200 =>
                   Range(l.list) = OwnedBy(l.emp) /\ Len(l.list) = Cardinality(OwnedBy(l.emp))

C18_MyRequestsExact ==
    \A caller \in {c \in EmpIds : resp = Idle} :
        LET m == MyRequestsOutcome(caller).resp
        IN  /\ m.code = 200
            /\ Range(m.list) = OwnedBy(caller)
            /\ Len(m.list) = Cardinality(OwnedBy(caller))

\* C18: whenever the server is ready for a request (resp = Idle), a
\* balance or history of another employee is returned only to a caller with
\* role hr or manager; a caller with role employee gets a balance and a
\* history only for their own id; every caller gets their own; a history
\* holds exactly the requests of the employee it is for and the own-requests
\* listing exactly the requests the caller owns, each once.
C18_DataIsolation == C18_OthersOnlyForReviewers /\ C18_MyRequestsExact

\* C18 witness: an employee asking for another employee's history has been
\* refused while both employees own a request.
C18_Witness ==
    /\ resp.op = "leaves" /\ resp.code = 403
    /\ employees["e2"].role = "employee"
    /\ OwnedBy("e1") # {} /\ OwnedBy("e2") # {}

\* A manager asking for another employee's balance is refused as well.
C18_ManagerRefused ==
    /\ resp.op = "balance" /\ resp.code = 403
    /\ employees["e2"].role = "manager"

-----------------------------------------------------------------------------
(* C19 *)

\* The category the specification gives each error of the four handlers.
ErrorCategory(msg) ==
    IF msg \in ApplyErrors \cup {"Validation failed", "Rejection comment is required"}
    THEN "validation"
    ELSE IF msg = "Leave request not found"
    THEN "not-found"
    ELSE IF msg \in {"Leave request is already approved",
                     "Leave request is already rejected",
                     "Cannot cancel approved leave request",
                     "Cannot cancel rejected leave request",
                     "Access denied. You can only cancel your own leave requests"}
    THEN "conflict"
    ELSE IF msg = "Access denied. HR or Manager role required."
    THEN "authorization"
    ELSE "other"

\* The error responses the four handlers give in the current state.
ErrorResponses ==
    {r \in
        {ApplyOutcome(c, in.startDate, in.endDate, in.form.leaveType, in.form.reason).resp :
            c \in EmpIds, in \in ApplyInputs}
        \cup {ApproveOutcome(c, id, cm).resp : c \in EmpIds, id \in ReqIds, cm \in ApproveComments}
        \cup {RejectOutcome(c, id, cm).resp : c \in EmpIds, id \in ReqIds, cm \in RejectComments}
        \cup {CancelOutcome(c, id).resp : c \in EmpIds, id \in ReqIds} :
     r.code \notin {200, 201} /\ ErrorCategory(r.msg) # "other"}

\* C19 as claimed: whenever the server is ready for a request
\* (resp = Idle), two error responses of apply, approve, reject and withdraw
\* that fall in different categories (validation, not-found, conflict,
\* authorization) differ in kind, not only in message.
C19_KindsDistinct ==
    resp = Idle =>
        \A r1 \in ErrorResponses, r2 \in ErrorResponses :
            ErrorCategory(r1.msg) # ErrorCategory(r2.msg) => ErrorKind(r1) # ErrorKind(r2)

-----------------------------------------------------------------------------
(* C20 *)

\* C20 as claimed: once a request is stored as approved or rejected, no step
\* of any handler changes its status, reviewer, reviewedAt or reviewComment.
C20_DecisionKept ==
    [][\A id \in ReqIds :
          (requests[id].exists /\ requests[id].status \in {"approved", "rejected"}) =>
              /\ requests'[id].exists
              /\ requests'[id].status = requests[id].status
              /\ requests'[id].reviewedBy = requests[id].reviewedBy
              /\ requests'[id].reviewedAt = requests[id].reviewedAt
              /\ requests'[id].reviewComment = requests[id].reviewComment]_vars

-----------------------------------------------------------------------------
(* C21 *)

\* C21: under any interleaving of cancel with approve or reject, a request
\* whose stored status is approved or rejected is never deleted: no step
\* removes a stored document whose status is not pending.
C21_ReviewedNeverDeleted ==
    [][\A id \in Stored :
          requests[id].status \in {"approved", "rejected"} => requests'[id].exists]_vars

-----------------------------------------------------------------------------
(* C22 *)

\* C22: also when apply handlers interleave, no state holds two pending or
\* approved requests of one employee whose date ranges intersect.
C22_NoOverlapPersisted ==
    \A a \in Stored, b \in Stored :
        (/\ a # b
         /\ requests[a].employee = requests[b].employee
         /\ requests[a].status \in {"pending", "approved"}
         /\ requests[b].status \in {"pending", "approved"})
        => DaysOf(requests[a]) \cap DaysOf(requests[b]) = {}

-----------------------------------------------------------------------------
(* C23 *)

\* Handler h is an approve that has passed its balance test on request id
\* and has not saved; the request is still stored as pending.
ApprovePassed(h) ==
    /\ inflight[h].pc = "save"
    /\ inflight[h].op = "approve"
    /\ inflight[h].id \in Stored
    /\ requests[inflight[h].id].status = "pending"

\* Handler h is an approve that has saved and has not answered yet.
ApproveSaved(h) ==
    /\ inflight[h].pc = "done"
    /\ inflight[h].resp.op = "approve"
    /\ inflight[h].resp.code = 200
    /\ requests[inflight[h].resp.id].exists
    /\ requests[inflight[h].resp.id].status = "approved"

\* Both approves have computed the approved total and neither has saved:
\* the one that saves first commits.
C23_FirstCommits ==
    \A h \in HandlerIds, g \in HandlerIds :
        (/\ h # g
         /\ ApprovePassed(h) /\ ApprovePassed(g)
         /\ inflight[h].id # inflight[g].id
         /\ inflight[h].doc.employee = inflight[g].doc.employee
         /\ inflight'[h].pc = "done")
        => /\ inflight'[h].resp.code = 200
           /\ requests'[inflight[h].id].status = "approved"
           /\ ApprovePassed(g)'

\* One has saved, the other passed its test on another request of the same
\* employee: its save commits too, and when the two requests together
\* exceed what was available the approved days end above the allocation.
C23_SecondCommits ==
    \A h \in HandlerIds, g \in HandlerIds :
        (/\ h # g
         /\ ApproveSaved(h) /\ ApprovePassed(g)
         /\ inflight[h].resp.id # inflight[g].id
         /\ requests[inflight[h].resp.id].employee = inflight[g].doc.employee
         /\ inflight'[g].pc = "done")
        => \A emp \in {inflight[g].doc.employee}, y \in {getFullYear(now)},
              first \in {requests[inflight[h].resp.id]},
              second \in {requests[inflight[g].id]} :
               /\ inflight'[g].resp.code = 200
               /\ requests'[inflight[g].id].status = "approved"
               /\ requests'[inflight[h].resp.id].status = "approved"
               /\ (/\ getFullYear(first.startDate) = y
                   /\ getFullYear(second.startDate) = y
                   /\ first.totalDays + second.totalDays > employees[emp].leaveBalance)
                  => ApprovedDays(emp, y)' > employees[emp].leaveBalance

\* C23: when two approve handlers for two different pending requests of one
\* employee both compute the approved total before either saves, both
\* approvals commit, and the employee's approved days for the year end above
\* the allocation when the two requests together exceed it.
C23_BestEffortRecheck == [][C23_FirstCommits /\ C23_SecondCommits]_vars

\* Both racing approvals have committed and the approved days of the year
\* exceed the allocation.
C23_Witness ==
    \E h \in HandlerIds, g \in HandlerIds :
        /\ h # g
        /\ ApproveSaved(h) /\ ApproveSaved(g)
        /\ inflight[h].resp.id # inflight[g].resp.id
        /\ LET emp == requests[inflight[h].resp.id].employee
           IN  /\ requests[inflight[g].resp.id].employee = emp
               /\ ApprovedDays(emp, getFullYear(now)) > employees[emp].leaveBalance

-----------------------------------------------------------------------------
(* C24 *)

\* The employees that hold role hr.
HrHolders == {e \in Registered : employees[e].role = "hr"}

\* C24: when self-registrations interleave on an empty system, exactly one
\* of the new employees receives role hr and every other receives role
\* employee.
C24_OneHr ==
    Registered # {} =>
        /\ Cardinality(HrHolders) = 1
        /\ \A e \in Registered \ HrHolders : employees[e].role = "employee"

-----------------------------------------------------------------------------
(* C25 *)

\* The error of the first guard of apply that fails, in the order past start
\* date, end before start, start before joining date, no working day,
\* insufficient balance, overlap; "" when none fails.  The guards are stated
\* on the calendar and the records.
FirstFailingGuard(caller, s, e) ==
    IF s < now
    THEN "Cannot apply for leave on past dates"
    ELSE IF e < s
    THEN "End date must be after or equal to start date"
    ELSE IF s < employees[caller].joiningDate
    THEN "Cannot apply for leave before joining date"
    ELSE IF Weekdays(s, e) = 0
    THEN "Leave request must include at least one working day"
    ELSE IF Weekdays(s, e) > employees[caller].leaveBalance
                             - ApprovedDays(caller, getFullYear(now))
    THEN "Insufficient leave balance"
    ELSE IF SharesDay(caller, s, e)
    THEN "You already have a pending or approved leave request that overlaps with these dates"
    ELSE ""

\* The range exceeds the balance and overlaps a stored request, and no
\* earlier guard fails.
ExceedsAndOverlaps(caller, s, e) ==
    /\ FirstFailingGuard(caller, s, e) = "Insufficient leave balance"
    /\ SharesDay(caller, s, e)

\* C25: whenever the server is ready for a request (resp = Idle), apply with
\* a well-formed body answers with the error of the first failing guard in
\* that order and stores nothing, and succeeds when no guard fails; a range
\* that both exceeds the balance and overlaps a stored request gets the
\* insufficient-balance error.
C25_GuardOrder ==
    \A caller \in {c \in EmpIds : resp = Idle} :
        \A s \in Days, e \in Days \cup {LongEnd} :
            LET o == ApplyOutcome(caller, s, e, PlainForm.leaveType, PlainForm.reason)
                g == FirstFailingGuard(caller, s, e)
            IN  /\ g # "" => /\ o.resp.code = 400
                             /\ o.resp.msg = g
                             /\ o.requests = requests
                /\ g = "" => o.resp.code = 201
                /\ ExceedsAndOverlaps(caller, s, e) =>
                       o.resp.msg = "Insufficient leave balance"

\* C25 witness: apply has just answered insufficient balance, and every
\* range that gets this answer from the same store also overlaps a stored
\* request of the caller.
C25_Witness ==
    /\ resp.op = "apply"
    /\ resp.msg = "Insufficient leave balance"
    /\ \A s \in Days, e \in Days \cup {LongEnd} :
          FirstFailingGuard("e2", s, e) = "Insufficient leave balance" =>
              SharesDay("e2", s, e)
    /\ \A s \in Days, e \in Days \cup {LongEnd} :
          FirstFailingGuard("e1", s, e) # "Insufficient leave balance"

-----------------------------------------------------------------------------
(* C26 *)

\* A rejected request of the employee shares a day with start..end.
SharesDayWithRejected(employeeId, start, end) ==
    \E id \in Stored :
        /\ requests[id].employee = employeeId
        /\ requests[id].status = "rejected"
        /\ DaysOf(requests[id]) \cap (start..end) # {}

\* Whenever the server is ready for a request, apply for a range that
\* intersects a rejected request of the caller succeeds when no guard fails,
\* the overlap guard counting pending and approved requests only.
C26_RejectedNeverBlocks ==
    \A caller \in {c \in EmpIds : resp = Idle} :
        \A s \in Days, e \in Days \cup {LongEnd} :
            (SharesDayWithRejected(caller, s, e) /\ FirstFailingGuard(caller, s, e) = "")
            => ApplyOutcome(caller, s, e, PlainForm.leaveType, PlainForm.reason).resp.code = 201

\* Right after a request has been rejected, or withdrawn while pending, its
\* owner's apply for any range intersecting it succeeds when no guard fails
\* in the store as the step left it.
C26_AfterRejectOrWithdraw ==
    \A id \in Stored :
        (resp'.op \in {"reject", "cancel"} /\ resp'.code = 200 /\ resp'.id = id) =>
            \A owner \in {requests[id].employee}, days \in {DaysOf(requests[id])} :
                \A s \in Days, e \in Days \cup {LongEnd} :
                    (days \cap (s..e) # {} /\ (FirstFailingGuard(owner, s, e) = "")')
                    => (ApplyOutcome(owner, s, e, PlainForm.leaveType,
                                     PlainForm.reason).resp.code = 201)'

\* C26: a rejected or withdrawn request never blocks a later application of
\* the same employee for an intersecting range.
C26_NeverBlocks == [](C26_RejectedNeverBlocks) /\ [][C26_AfterRejectOrWithdraw]_vars

\* C26 witness: apply has just stored a request that shares a day with a
\* rejected request of the same employee.
C26_Witness ==
    /\ resp.op = "apply" /\ resp.code = 201
    /\ \E id \in Stored :
          /\ id # resp.id
          /\ requests[id].employee = requests[resp.id].employee
          /\ requests[id].status = "rejected"
          /\ DaysOf(requests[id]) \cap DaysOf(requests[resp.id]) # {}

\* A request was withdrawn and its owner has applied again with success:
\* the store holds the later request only.
C26_AfterWithdraw ==
    /\ resp.op = "apply" /\ resp.code = 201
    /\ resp.id = 2
    /\ ~requests[1].exists

-----------------------------------------------------------------------------
(* C27 *)

\* The calendar years the model's dates fall in.
Years == {getFullYear(d) : d \in 0..LongEnd}

\* C27: with operations executed one at a time, at any dates, for every
\* employee and every calendar year the totalDays of the employee's approved
\* requests whose startDate lies in that year sum to at most the employee's
\* allocated leave days.
C27_ApprovedWithinAllocation ==
    \A e \in EmpIds, y \in Years :
        ApprovedDays(e, y) <= employees[e].leaveBalance

-----------------------------------------------------------------------------
(* C28 *)

\* What the balance route reports for employee e to the HR user.
ReportedBalance(e) == BalanceOutcome("e1", e).resp

\* A step within one calendar year changes the reported used value of an
\* employee only when it is a successful approve of a request of that
\* employee that starts in the current year, and then by that request's
\* totalDays; every other step leaves used, total and available as they were.
C28_Step ==
    getFullYear(now') = getFullYear(now) =>
        \A e \in EmpIds :
            \A before \in {ReportedBalance(e)}, after \in {ReportedBalance(e)'} :
                IF /\ resp'.op = "approve" /\ resp'.code = 200
                   /\ requests[resp'.id].employee = e
                   /\ getFullYear(requests[resp'.id].startDate) = getFullYear(now)
                THEN /\ after.used = before.used + requests[resp'.id].totalDays
                     /\ after.used > before.used
                     /\ after.total = before.total
                ELSE /\ after.used = before.used
                     /\ after.total = before.total
                     /\ after.available = before.available

\* C28: with operations run one at a time within one calendar year, the
\* used value getBalance reports never decreases and changes only through a
\* successful approve of a request of that employee, by exactly the
\* request's totalDays when it starts in the current year; apply, reject,
\* withdraw and every failed call leave used, total and available unchanged.
C28_UsedMonotone == [][C28_Step]_vars

\* C28 witness: an approve has just succeeded for a request that starts in
\* the current year, and the reported used value counts its totalDays.
C28_Witness ==
    /\ resp.op = "approve" /\ resp.code = 200
    /\ getFullYear(requests[resp.id].startDate) = getFullYear(now)
    /\ requests[resp.id].totalDays > 0
    /\ ReportedBalance(requests[resp.id].employee).used >= requests[resp.id].totalDays

-----------------------------------------------------------------------------
(* C29 *)

\* Handler h is an approve or reject that read request id as pending and has
\* not answered, and the request has been deleted since.
ReviewOfDeleted(h) ==
    /\ inflight[h].pc \in {"aggregate", "save"}
    /\ inflight[h].op \in {"approve", "reject"}
    /\ inflight[h].id \notin Stored

\* While such a handler runs the request stays absent; the handler's own
\* steps write nothing, leave the owner's approved days and reported used
\* value as they are, and end in an error response.
C29_Step ==
    \A h \in HandlerIds :
        ReviewOfDeleted(h) =>
            \A id \in {inflight[h].id}, owner \in {inflight[h].doc.employee},
               y \in {getFullYear(now)} :
                /\ ~requests'[id].exists
                /\ inflight'[h] # inflight[h] =>
                      /\ requests' = requests
                      /\ ApprovedDays(owner, y)' = ApprovedDays(owner, y)
                      /\ balanceUsedLeaves(owner)' = balanceUsedLeaves(owner)
                      /\ inflight'[h].pc \in {"save", "done"}
                      /\ inflight'[h].pc = "done" => inflight'[h].resp.code >= 400

\* C29: when cancel deletes a pending request while an approve or reject
\* that read it as pending is still running, the later save does not store
\* the request again, the approve or reject ends with an error response, and
\* the owner's used balance is not increased.
C29_DeletedStaysDeleted == [][C29_Step]_vars

\* C29 witness: a cancel has deleted the request and the save of an approve
\* or reject that had read it has failed.
C29_Witness ==
    \E h \in HandlerIds, g \in HandlerIds :
        /\ inflight[h].pc = "done"
        /\ inflight[h].resp.op \in {"approve", "reject"}
        /\ inflight[h].resp.code = 500
        /\ inflight[g].pc = "done"
        /\ inflight[g].resp.op = "cancel"
        /\ inflight[g].resp.code = 200
        /\ ~requests[inflight[g].resp.id].exists

-----------------------------------------------------------------------------
(* C30 *)

\* approve reaches its balance re-check on request id: the caller is a
\* reviewer and the status guard has passed.
ReachesRecheck(caller, id) ==
    authorizeHR(caller) /\ ~ApproveNotPending(requests[id])

\* C30: with operations run one at a time, whenever approve reaches its
\* re-check the request is pending, and the aggregated sum with the clause
\* that excludes the request itself equals the sum without it (the same
\* aggregation excluding an _id no document has).
C30_ExclusionIsNoOp ==
    \A id \in {i \in Stored : resp = Idle}, caller \in EmpIds :
        ReachesRecheck(caller, id) =>
            /\ requests[id].status = "pending"
            /\ approveUsedLeaves(id) = approvedLeavesOf(requests[id].employee, 0)
            /\ approveUsedLeaves(id) = ApprovedDays(requests[id].employee, getFullYear(now))

\* C30 witness: approve has just run its re-check against a nonzero sum of
\* approved days and refused.
C30_Witness ==
    /\ resp.op = "approve"
    /\ resp.msg = "Cannot approve"
    /\ \E id \in Stored :
          /\ requests[id].status = "pending"
          /\ approveUsedLeaves(id) > 0

====
